---- MODULE Spec2Model ----
(***************************************************************************)
(* Verification model of the XDR generator's custom-code merger            *)
(* (tools/xdr_generator): DartAnalyzer, DartMerger and the merge/write     *)
(* steps of generate_xdr.                                                  *)
(*                                                                         *)
(* Two levels of text are used.                                            *)
(*  - Character level: DartAnalyzer._find_matching_brace is modelled one   *)
(*    loop iteration per step on a sequence of one-character strings.      *)
(*  - Line level: a Dart file is a sequence of lines; each line is a tuple *)
(*    whose first element is its kind.  The regular expressions of the     *)
(*    analyzer and the merger are modelled by the kinds of line they       *)
(*    match.                                                               *)
(***************************************************************************)
EXTENDS Integers, Sequences, FiniteSets, TLC

VARIABLES
    \* ---- DartAnalyzer._find_matching_brace (character level) ----
    content,            \* the scanned text, a sequence of characters
    pos,                \* Python index of the character examined next
    depth,              \* brace depth
    in_string,          \* inside a quoted string
    string_char,        \* the quote that opened the string ("" = None)
    in_single_comment,  \* inside a // comment
    in_multi_comment,   \* inside a /* */ comment
    scan_pc,            \* "loop" while scanning, "returned" afterwards
    scan_result,        \* the returned position, -1 for no matching brace
    mode_at,            \* history: state in which each position was examined
    \* ---- generate_xdr steps 6..8 and DartMerger.merge_file ----
    existing,           \* the hand-written file under lib/src/xdr (lines)
    generated,          \* the freshly generated text for the same file
    skip_validation,    \* command line flag --skip-validation
    pc,                 \* position of the run
    mres,               \* outcome of merger.merge_file(content, existing)
    merged_files,       \* merged_files[filename]
    disk,               \* the file in the output directory
    mres2,              \* outcome of merging the merged text again
    \* ---- DependencyResolver ----
    file_mapper,        \* FileMapper.type_to_file: Dart class -> file
    parsed_files,       \* argument of the last build_dependency_graph call
    type_to_file,       \* resolver.type_to_file
    file_dependencies,  \* resolver.file_dependencies
    type_dependencies,  \* resolver.type_dependencies
    builds,             \* number of build_dependency_graph calls so far
    circles,            \* list returned by detect_circular_dependencies
    topo_pc,            \* position inside get_topological_order
    all_files,          \* local all_files of get_topological_order
    in_degree,          \* local in_degree
    queue,              \* local queue
    result,             \* local result, the returned list
    \* ---- XdrLexer / XdrParser ----
    idl,                \* what the IDL text declares (history)
    source,             \* the IDL text as lexical items
    tokens,             \* parser.tokens, the output of tokenize
    tok_pos,            \* parser.pos
    xdr_file,           \* parser.current_file, the XdrFile under construction
    parse_pc,           \* position inside XdrParser.parse
    parse_exc,          \* type of the exception that left parse ("" = none)
    \* ---- XdrFile.resolve_references ----
    xdr_files,          \* the parsed XdrFile objects
    resolve_log,        \* the arguments of the calls so far (history)
    before_resolve,     \* xdr_files before the last call (history)
    resolve_warnings,   \* the warnings the calls have handed to the caller
    resolve_exc,        \* type of the exception of the last call ("" = none)
    \* ---- XdrLexer on characters ----
    lexer_source,       \* lexer.source, a sequence of characters
    lexer_pos,          \* lexer.pos
    line,               \* lexer.line
    column,             \* lexer.column
    lexer_tokens,       \* lexer.tokens
    lexer_pc,           \* position inside tokenize
    lexer_error,        \* the XdrLexerError raised (<<>> = none)
    \* ---- xdr_fetcher._make_request ----
    attempt,            \* the loop variable attempt
    sleeps,             \* the delays of the time.sleep calls so far
    responses,          \* the outcomes of the urlopen calls so far
    fetch_pc,           \* position inside _make_request
    fetch_result,       \* what the call ended with ("" while running)
    \* ---- DartMerger.insert_custom_section ----
    insert_content,     \* argument class_content (lines)
    insert_section,     \* argument section: its class_name and content
    insert_pc,          \* "call" before the call, "done" after it
    insert_result       \* the returned text, or raised for ValueError

scanVars == <<content, pos, depth, in_string, string_char,
              in_single_comment, in_multi_comment, scan_pc, scan_result,
              mode_at>>
runVars == <<existing, generated, skip_validation, pc, mres, merged_files,
             disk, mres2>>
resolverVars == <<file_mapper, parsed_files, type_to_file, file_dependencies,
                  type_dependencies, builds, circles, topo_pc, all_files,
                  in_degree, queue, result>>
parserVars == <<idl, source, tokens, tok_pos, xdr_file, parse_pc, parse_exc>>
resolveVars == <<xdr_files, resolve_log, before_resolve, resolve_warnings,
                 resolve_exc>>
lexerVars == <<lexer_source, lexer_pos, line, column, lexer_tokens, lexer_pc,
               lexer_error>>
fetchVars == <<attempt, sleeps, responses, fetch_pc, fetch_result>>
insertVars == <<insert_content, insert_section, insert_pc, insert_result>>
vars == <<content, pos, depth, in_string, string_char, in_single_comment,
          in_multi_comment, scan_pc, scan_result, mode_at, existing, generated,
          skip_validation, pc, mres, merged_files, disk, mres2,
          file_mapper, parsed_files, type_to_file, file_dependencies,
          type_dependencies, builds, circles, topo_pc, all_files,
          in_degree, queue, result,
          idl, source, tokens, tok_pos, xdr_file, parse_pc, parse_exc,
          xdr_files, resolve_log, before_resolve, resolve_warnings,
          resolve_exc,
          lexer_source, lexer_pos, line, column, lexer_tokens, lexer_pc,
          lexer_error,
          attempt, sleeps, responses, fetch_pc, fetch_result,
          insert_content, insert_section, insert_pc, insert_result>>

\* no resolver has been constructed
ResolverIdle ==
    /\ file_mapper = <<>>
    /\ parsed_files = <<>>
    /\ type_to_file = <<>>
    /\ file_dependencies = <<>>
    /\ type_dependencies = <<>>
    /\ builds = 0
    /\ circles = <<>>
    /\ topo_pc = "idle"
    /\ all_files = {}
    /\ in_degree = <<>>
    /\ queue = <<>>
    /\ result = <<>>

\* no parser has been constructed
ParserIdle ==
    /\ idl = <<>>
    /\ source = <<>>
    /\ tokens = <<>>
    /\ tok_pos = 0
    /\ xdr_file = <<>>
    /\ parse_pc = "idle"
    /\ parse_exc = ""

\* resolve_references has not been called
ResolveIdle ==
    /\ xdr_files = <<>>
    /\ resolve_log = <<>>
    /\ before_resolve = <<>>
    /\ resolve_warnings = <<>>
    /\ resolve_exc = ""

\* no lexer has been constructed
LexerIdle ==
    /\ lexer_source = <<>>
    /\ lexer_pos = 0
    /\ line = 1
    /\ column = 1
    /\ lexer_tokens = <<>>
    /\ lexer_pc = "idle"
    /\ lexer_error = <<>>

\* _make_request has not been called
FetchIdle ==
    /\ attempt = 0
    /\ sleeps = <<>>
    /\ responses = <<>>
    /\ fetch_pc = "idle"
    /\ fetch_result = ""

\* insert_custom_section has not been called
InsertIdle ==
    /\ insert_content = <<>>
    /\ insert_section = <<>>
    /\ insert_pc = "idle"
    /\ insert_result = <<>>

(***************************************************************************)
(* Bounds                                                                  *)
(***************************************************************************)
\* longest text after the opening brace given to the character scanner
MaxScanLen == 4

(***************************************************************************)
(* Generic helpers                                                         *)
(***************************************************************************)
RECURSIVE SeqsUpTo(_, _)
SeqsUpTo(S, n) ==
    IF n = 0 THEN {<<>>}
    ELSE LET shorter == SeqsUpTo(S, n - 1)
         IN  shorter \cup {Append(s, x) : s \in {t \in shorter : Len(t) = n - 1}, x \in S}

(***************************************************************************)
(* Character level: DartAnalyzer._find_matching_brace                      *)
(***************************************************************************)
\* "n" is the newline, "q" the single quote, "d" the double quote and
\* "b" the backslash.
ScanChars == {"{", "}", "/", "*", "n", "q", "d", "b"}

\* content[i] for a Python index i, '' outside the text
CharAt(c, i) == IF i >= 0 /\ i < Len(c) THEN c[i + 1] ELSE ""

ScanMode ==
    IF in_single_comment THEN "line"
    ELSE IF in_multi_comment THEN "block"
    ELSE IF in_string THEN "string"
    ELSE "normal"

ScanIdle ==
    /\ content = <<>>
    /\ pos = 0
    /\ depth = 0
    /\ in_string = FALSE
    /\ string_char = ""
    /\ in_single_comment = FALSE
    /\ in_multi_comment = FALSE
    /\ scan_pc = "idle"
    /\ scan_result = -1
    /\ mode_at = <<>>

\* _find_matching_brace(content, 0) up to the loop: content[0] is "{"
ScanStart(c) ==
    /\ content = c
    /\ pos = 1
    /\ depth = 1
    /\ in_string = FALSE
    /\ string_char = ""
    /\ in_single_comment = FALSE
    /\ in_multi_comment = FALSE
    /\ scan_pc = "loop"
    /\ scan_result = -1
    /\ mode_at = <<"normal">>

ScanLooping == scan_pc = "loop" /\ pos < Len(content) /\ depth > 0

char == CharAt(content, pos)
prev_char == CharAt(content, pos - 1)
next_char == CharAt(content, pos + 1)

\* history of the examined positions: a jump of two marks the second
\* character as skipped
Examined1 == Append(mode_at, ScanMode)
Examined2 == IF pos + 1 < Len(content)
             THEN Append(Append(mode_at, ScanMode), "skip")
             ELSE Append(mode_at, ScanMode)

IsLineCommentStart ==
    ~in_string /\ ~in_multi_comment /\ char = "/" /\ next_char = "/"
IsLineCommentEnd == in_single_comment /\ char = "n"
IsBlockCommentStart ==
    ~in_string /\ ~in_single_comment /\ char = "/" /\ next_char = "*"
IsBlockCommentEnd == in_multi_comment /\ char = "*" /\ next_char = "/"

LineCommentStart ==
    /\ ScanLooping
    /\ IsLineCommentStart
    /\ in_single_comment' = TRUE
    /\ pos' = pos + 2
    /\ mode_at' = Examined2
    /\ UNCHANGED <<content, depth, in_string, string_char, in_multi_comment,
                   scan_pc, scan_result>>
    /\ UNCHANGED <<runVars, resolverVars, parserVars>>
    /\ UNCHANGED <<resolveVars, lexerVars, fetchVars, insertVars>>

LineCommentEnd ==
    /\ ScanLooping
    /\ ~IsLineCommentStart
    /\ IsLineCommentEnd
    /\ in_single_comment' = FALSE
    /\ pos' = pos + 1
    /\ mode_at' = Examined1
    /\ UNCHANGED <<content, depth, in_string, string_char, in_multi_comment,
                   scan_pc, scan_result>>
    /\ UNCHANGED <<runVars, resolverVars, parserVars>>
    /\ UNCHANGED <<resolveVars, lexerVars, fetchVars, insertVars>>

BlockCommentStart ==
    /\ ScanLooping
    /\ ~IsLineCommentStart
    /\ ~IsLineCommentEnd
    /\ IsBlockCommentStart
    /\ in_multi_comment' = TRUE
    /\ pos' = pos + 2
    /\ mode_at' = Examined2
    /\ UNCHANGED <<content, depth, in_string, string_char, in_single_comment,
                   scan_pc, scan_result>>
    /\ UNCHANGED <<runVars, resolverVars, parserVars>>
    /\ UNCHANGED <<resolveVars, lexerVars, fetchVars, insertVars>>

BlockCommentEnd ==
    /\ ScanLooping
    /\ ~IsLineCommentStart
    /\ ~IsLineCommentEnd
    /\ ~IsBlockCommentStart
    /\ IsBlockCommentEnd
    /\ in_multi_comment' = FALSE
    /\ pos' = pos + 2
    /\ mode_at' = Examined2
    /\ UNCHANGED <<content, depth, in_string, string_char, in_single_comment,
                   scan_pc, scan_result>>
    /\ UNCHANGED <<runVars, resolverVars, parserVars>>
    /\ UNCHANGED <<resolveVars, lexerVars, fetchVars, insertVars>>

SkipComment ==
    /\ ScanLooping
    /\ ~IsLineCommentStart
    /\ ~IsLineCommentEnd
    /\ ~IsBlockCommentStart
    /\ ~IsBlockCommentEnd
    /\ in_single_comment \/ in_multi_comment
    /\ pos' = pos + 1
    /\ mode_at' = Examined1
    /\ UNCHANGED <<content, depth, in_string, string_char, in_single_comment,
                   in_multi_comment, scan_pc, scan_result>>
    /\ UNCHANGED <<runVars, resolverVars, parserVars>>
    /\ UNCHANGED <<resolveVars, lexerVars, fetchVars, insertVars>>

\* "if char in ('"', "'") and prev_char != '\\'": the string state after
\* the character, as <<in_string, string_char>>
StringAfter(ch, prev, instr, schar) ==
    IF ch \in {"q", "d"} /\ prev # "b"
    THEN IF ~instr THEN <<TRUE, ch>>
         ELSE IF ch = schar THEN <<FALSE, "">>
         ELSE <<instr, schar>>
    ELSE <<instr, schar>>

\* a mutation: braces inside strings are counted as well
BraceDeltaInStrings(ch, instr) ==
    IF ch = "{" THEN 1 ELSE IF ch = "}" THEN -1 ELSE 0

\* "if not in_string: if char == '{': depth += 1 elif char == '}': depth -= 1"
BraceDelta(ch, instr) ==
    IF instr THEN 0
    ELSE IF ch = "{" THEN 1
    ELSE IF ch = "}" THEN -1
    ELSE 0

ScanChar ==
    /\ ScanLooping
    /\ ~IsLineCommentStart
    /\ ~IsLineCommentEnd
    /\ ~IsBlockCommentStart
    /\ ~IsBlockCommentEnd
    /\ ~(in_single_comment \/ in_multi_comment)
    /\ LET sa == StringAfter(char, prev_char, in_string, string_char)
           d  == depth + BraceDelta(char, sa[1])
       IN  /\ in_string' = sa[1]
           /\ string_char' = sa[2]
           /\ depth' = d
           /\ IF d = 0
              THEN scan_pc' = "returned" /\ scan_result' = pos /\ pos' = pos
              ELSE UNCHANGED <<scan_pc, scan_result>> /\ pos' = pos + 1
    /\ mode_at' = Examined1
    /\ UNCHANGED <<content, in_single_comment, in_multi_comment>>
    /\ UNCHANGED <<runVars, resolverVars, parserVars>>
    /\ UNCHANGED <<resolveVars, lexerVars, fetchVars, insertVars>>

\* the loop ends without a return: "return -1"
ScanExhausted ==
    /\ scan_pc = "loop"
    /\ ~(pos < Len(content) /\ depth > 0)
    /\ scan_pc' = "returned"
    /\ scan_result' = -1
    /\ UNCHANGED <<content, pos, depth, in_string, string_char,
                   in_single_comment, in_multi_comment, mode_at>>
    /\ UNCHANGED <<runVars, resolverVars, parserVars>>
    /\ UNCHANGED <<resolveVars, lexerVars, fetchVars, insertVars>>

(***************************************************************************)
(* Line level: the shape of a Dart file                                    *)
(*                                                                         *)
(*   <<"hdr", id>>            a header comment line                        *)
(*   <<"imp", dir, mod>>      import 'dir/mod.dart';                       *)
(*   <<"impas", dir, mod>>    import 'dir/mod.dart' as mod;                *)
(*   <<"class", name>>        class Name {                                 *)
(*   <<"close">>              }                                            *)
(*   <<"start">>, <<"end">>   // CUSTOM_CODE_START, // CUSTOM_CODE_END     *)
(*   <<"meth", m, form, by>>  a method m on one line; form "block" is      *)
(*                            T m(..) { .. }, form "arrow" is m(..) => ..; *)
(*   <<"field", name>>        a member that mentions a class: Name x;      *)
(*   <<"cmtq">>               a comment with an apostrophe: // it's        *)
(*   <<"call", m>>            a statement that calls m: return m(..);      *)
(*   <<"label">>              // Preserved helper classes (not in XDR spec)*)
(*                                                                         *)
(* A class name is <<prefix, base>> with prefix "Xdr" or "".  Blank lines  *)
(* and indentation are not represented.                                    *)
(***************************************************************************)
Kind(l) == l[1]
\* class_name.startswith('Xdr')
StartsWithXdr(name) == name[1] = "Xdr"
\* f'Xdr{class_name}' for a name without the prefix
WithXdr(name) == <<"Xdr", name[2]>>

NoFile == <<<<"nofile">>>>

\* index of the first line satisfying P, or -1
FirstIndex(text, P(_)) ==
    IF \E i \in 1..Len(text) : P(text[i])
    THEN CHOOSE i \in 1..Len(text) :
            P(text[i]) /\ \A j \in 1..(i - 1) : ~P(text[j])
    ELSE -1

LastIndex(text, P(_)) ==
    IF \E i \in 1..Len(text) : P(text[i])
    THEN CHOOSE i \in 1..Len(text) :
            P(text[i]) /\ \A j \in (i + 1)..Len(text) : ~P(text[j])
    ELSE -1

IsStart(l) == Kind(l) = "start"
IsEnd(l) == Kind(l) = "end"
IsClassLine(l) == Kind(l) = "class"
\* r"^import\s+['\"]([^'\"]+)['\"];?\s*$"
IsStrictImport(l) == Kind(l) = "imp"
\* r"^import\s+"
IsLooseImport(l) == Kind(l) \in {"imp", "impas"}

Count(text, P(_)) == Cardinality({i \in 1..Len(text) : P(text[i])})

\* the sequence without its repeated elements, first occurrences kept
RECURSIVE Distinct(_)
Distinct(s) ==
    IF s = <<>> THEN <<>>
    ELSE LET front == Distinct(SubSeq(s, 1, Len(s) - 1))
             last  == s[Len(s)]
         IN  IF \E i \in 1..Len(front) : front[i] = last
             THEN front ELSE Append(front, last)

RECURSIVE Concat(_)
Concat(ss) == IF ss = <<>> THEN <<>> ELSE Head(ss) \o Concat(Tail(ss))

(***************************************************************************)
(* DartAnalyzer                                                            *)
(***************************************************************************)
\* _validate_no_nested_markers: the markers in the order of their positions
RECURSIVE NestedMarkerCheck(_, _, _)
NestedMarkerCheck(text, i, d) ==
    IF i > Len(text) THEN "ok"
    ELSE IF IsStart(text[i])
         THEN IF d > 0 THEN "nested start"
              ELSE NestedMarkerCheck(text, i + 1, d + 1)
    ELSE IF IsEnd(text[i])
         THEN IF d - 1 < 0 THEN "end without start"
              ELSE NestedMarkerCheck(text, i + 1, d - 1)
    ELSE NestedMarkerCheck(text, i + 1, d)

\* a mutation: only the counts are compared
ValidateMarkersCountOnly(text) ==
    IF Count(text, IsStart) # Count(text, IsEnd) THEN "mismatched counts"
    ELSE "ok"

\* analyze_file, marker validation: "ok" or the ValueError raised
ValidateMarkers(text) ==
    IF Count(text, IsStart) # Count(text, IsEnd) THEN "mismatched counts"
    ELSE IF Count(text, IsStart) > 0 THEN NestedMarkerCheck(text, 1, 0)
    ELSE "ok"

\* _find_matching_brace on lines: comments are skipped, the quotes of a
\* line are balanced, a block method opens and closes its own brace
RECURSIVE MatchBraceFrom(_, _, _)
MatchBraceFrom(text, p, d) ==
    IF p > Len(text) THEN -1
    ELSE IF Kind(text[p]) = "class" THEN MatchBraceFrom(text, p + 1, d + 1)
    ELSE IF Kind(text[p]) = "close"
         THEN IF d - 1 = 0 THEN p ELSE MatchBraceFrom(text, p + 1, d - 1)
    ELSE MatchBraceFrom(text, p + 1, d)

FindMatchingBrace(text, start_pos) ==
    IF start_pos > Len(text) \/ Kind(text[start_pos]) # "class" THEN -1
    ELSE MatchBraceFrom(text, start_pos + 1, 1)

\* _extract_file_header: the text before the first import, or before the
\* first class when there is no import; <<>> stands for None
ExtractFileHeader(text) ==
    LET imp == FirstIndex(text, IsLooseImport)
        cls == FirstIndex(text, IsClassLine)
    IN  IF imp # -1 THEN SubSeq(text, 1, imp - 1)
        ELSE IF cls # -1 THEN SubSeq(text, 1, cls - 1)
        ELSE <<>>

\* extract_imports
ExtractImports(text) == SelectSeq(text, IsStrictImport)

\* extract_class_names
ExtractClassNames(text) ==
    LET cl == SelectSeq(text, IsClassLine)
    IN  [i \in 1..Len(cl) |-> cl[i][2]]

ClassIndex(text, name) ==
    IF \E i \in 1..Len(text) : text[i] = <<"class", name>>
    THEN CHOOSE i \in 1..Len(text) :
            /\ text[i] = <<"class", name>>
            /\ \A j \in 1..(i - 1) : text[j] # <<"class", name>>
    ELSE -1

\* re.finditer(START \n (.*?) END, class_body, DOTALL): the contents
RECURSIVE SectionsFrom(_, _)
SectionsFrom(body, p) ==
    LET rest == SubSeq(body, p, Len(body))
        s    == FirstIndex(rest, IsStart)
    IN  IF s = -1 THEN <<>>
        ELSE LET after == SubSeq(rest, s + 1, Len(rest))
                 e     == FirstIndex(after, IsEnd)
             IN  IF e = -1 THEN <<>>
                 ELSE <<SubSeq(after, 1, e - 1)>>
                      \o SectionsFrom(body, p + s + e)

\* _extract_custom_sections_for_class
ExtractCustomSectionsForClass(text, name) ==
    LET ci == ClassIndex(text, name)
        ce == FindMatchingBrace(text, ci)
    IN  IF ci = -1 THEN <<>>
        ELSE IF ce = -1 THEN <<>>
        ELSE SectionsFrom(SubSeq(text, ci + 1, ce - 1), 1)

\* extract_class_code; <<>> stands for None
ExtractClassCode(text, name) ==
    LET ci == ClassIndex(text, name)
        ce == FindMatchingBrace(text, ci)
    IN  IF ci = -1 THEN <<>>
        ELSE IF ce = -1 THEN <<>>
        ELSE SubSeq(text, ci, ce)

\* analyze_file: the ValueError, or the dict of classes in insertion order
AnalyzeFile(text) ==
    LET v     == ValidateMarkers(text)
        names == Distinct(ExtractClassNames(text))
    IN  IF v # "ok"
        THEN [ok |-> FALSE, err |-> v, names |-> <<>>, sections |-> <<>>,
              imports |-> <<>>, file_header |-> <<>>]
        ELSE [ok |-> TRUE, err |-> "",
              names |-> names,
              sections |-> [i \in 1..Len(names) |->
                              ExtractCustomSectionsForClass(text, names[i])],
              imports |-> ExtractImports(text),
              file_header |-> ExtractFileHeader(text)]

(***************************************************************************)
(* TypeMapper                                                              *)
(***************************************************************************)
\* class TypeMapper defines no method get_inline_struct_alias; the call
\* self.type_mapper.get_inline_struct_alias(..) raises AttributeError
TypeMapperHasInlineStructAlias == FALSE

(***************************************************************************)
(* DartMerger                                                              *)
(***************************************************************************)
\* re.search(rf'class\s+{name}\b', text)
HasClass(text, name) == ClassIndex(text, name) # -1

\* _find_class_end on lines: strings are tracked, comments are not, so
\* the apostrophe of a comment opens or closes a string
RECURSIVE ClassEndFrom(_, _, _, _)
ClassEndFrom(text, p, d, instr) ==
    IF p > Len(text) THEN -1
    ELSE IF Kind(text[p]) = "cmtq" THEN ClassEndFrom(text, p + 1, d, ~instr)
    ELSE IF Kind(text[p]) = "class" /\ ~instr
         THEN ClassEndFrom(text, p + 1, d + 1, instr)
    ELSE IF Kind(text[p]) = "close" /\ ~instr
         THEN IF d - 1 = 0 THEN p ELSE ClassEndFrom(text, p + 1, d - 1, instr)
    ELSE ClassEndFrom(text, p + 1, d, instr)

FindClassEnd(text, start_pos) ==
    IF start_pos > Len(text) \/ Kind(text[start_pos]) # "class" THEN -1
    ELSE ClassEndFrom(text, start_pos + 1, 1, FALSE)

\* _detect_methods_in_custom_code: the names matched by
\* (?:static\s+)?(?:\w+\??)\s+(\w+)\s*\(, a word, white space, a name
\* and "(": the declaration "int m(" and the statement "return m("
DetectMethodsInCustomCode(custom_content) ==
    LET IsMeth(l) == Kind(l) \in {"meth", "call"}
        ms == SelectSeq(custom_content, IsMeth)
    IN  [i \in 1..Len(ms) |-> ms[i][2]]

\* the removal pattern ... name\s*\([^)]*\)\s*\{ needs a brace after the
\* parameter list: it matches block methods only
RemovalPatternMatches(l, method_name) ==
    Kind(l) = "meth" /\ l[2] = method_name /\ l[3] = "block"

\* _remove_conflicting_methods
RemoveConflictingMethods(text, method_names, class_start, class_end) ==
    LET Keep(l) == ~\E i \in 1..Len(method_names) :
                       RemovalPatternMatches(l, method_names[i])
        class_body == SubSeq(text, class_start + 1, class_end - 1)
    IN  SubSeq(text, 1, class_start) \o SelectSeq(class_body, Keep)
        \o SubSeq(text, class_end, Len(text))

\* _format_custom_section
FormatCustomSection(section_content) ==
    <<<<"start">>>> \o section_content \o <<<<"end">>>>

\* insert_custom_section(class_content, section); raised = ValueError
InsertCustomSection(class_content, class_name, section_content) ==
    LET ci == ClassIndex(class_content, class_name)
        closing_brace_pos == FindClassEnd(class_content, ci)
        class_body == SubSeq(class_content, ci + 1, closing_brace_pos - 1)
        custom_methods == DetectMethodsInCustomCode(section_content)
        removed == IF custom_methods # <<>>
                   THEN RemoveConflictingMethods(class_content, custom_methods,
                                                 ci, closing_brace_pos)
                   ELSE class_content
        pos2 == IF custom_methods # <<>>
                THEN FindClassEnd(removed, ci) ELSE closing_brace_pos
    IN  IF ci = -1 THEN [raised |-> TRUE, text |-> class_content]
        ELSE IF closing_brace_pos = -1
             THEN [raised |-> TRUE, text |-> class_content]
        ELSE IF \E i \in 1..Len(class_body) : IsStart(class_body[i])
             THEN [raised |-> FALSE, text |-> class_content]
        ELSE [raised |-> FALSE,
              text |-> SubSeq(removed, 1, pos2 - 1)
                       \o FormatCustomSection(section_content)
                       \o SubSeq(removed, pos2, Len(removed))]

\* re.sub(rf'\b{old}\b', new, code): every mention of the class name
Rename(code, old, new) ==
    [i \in 1..Len(code) |->
        IF Kind(code[i]) \in {"class", "field"} /\ code[i][2] = old
        THEN <<code[i][1], new>> ELSE code[i]]

\* _normalize_preserved_class_names
NormalizePreservedClassNames(class_code, class_name) ==
    IF StartsWithXdr(class_name) THEN class_code
    ELSE Rename(class_code, class_name, WithXdr(class_name))

\* _extract_generated_class_names
ExtractGeneratedClassNames(text) == ExtractClassNames(text)

\* preserve_missing_classes, first loop: the preserved class codes
RECURSIVE PreservedClasses(_, _)
PreservedClasses(existing_content, missing_classes) ==
    IF missing_classes = <<>> THEN <<>>
    ELSE LET class_name == Head(missing_classes)
             class_code == ExtractClassCode(existing_content, class_name)
             rest == PreservedClasses(existing_content, Tail(missing_classes))
         IN  IF class_code # <<>>
             THEN <<NormalizePreservedClassNames(class_code, class_name)>>
                  \o rest
             ELSE rest

\* the missing classes whose code was found and that got the prefix
NormalizedNames(existing_content, missing_classes) ==
    LET Norm(n) == ExtractClassCode(existing_content, n) # <<>>
                   /\ ~StartsWithXdr(n)
    IN  SelectSeq(missing_classes, Norm)

\* for old_name, new_name in normalized_names.items(): re.sub(..)
RECURSIVE RenameToXdr(_, _)
RenameToXdr(section, old_names) ==
    IF old_names = <<>> THEN section
    ELSE RenameToXdr(Rename(section, Head(old_names), WithXdr(Head(old_names))),
                     Tail(old_names))

\* for gen_class in generated_class_names: if gen_class.startswith('Xdr'):
\*     re.sub(rf'\b{gen_class[3:]}\b', gen_class, preserved_section)
RECURSIVE RenameToGenerated(_, _)
RenameToGenerated(section, gen_classes) ==
    IF gen_classes = <<>> THEN section
    ELSE LET g == Head(gen_classes)
         IN  RenameToGenerated(
                 IF StartsWithXdr(g) THEN Rename(section, <<"", g[2]>>, g)
                 ELSE section,
                 Tail(gen_classes))

\* preserve_missing_classes
PreserveMissingClasses(merged_content, existing_content, missing_classes) ==
    LET preserved_classes == PreservedClasses(existing_content, missing_classes)
        labelled == merged_content \o <<<<"label">>>>
        section1 == RenameToXdr(Concat(preserved_classes),
                        NormalizedNames(existing_content, missing_classes))
        section2 == RenameToGenerated(section1,
                        ExtractGeneratedClassNames(labelled))
    IN  IF missing_classes = <<>> THEN merged_content
        ELSE IF preserved_classes = <<>> THEN merged_content
        ELSE labelled \o section2

\* path.split('/')[-1].replace('.dart', '')
ModuleName(imp) == imp[3]
ImportPath(imp) == <<imp[2], imp[3]>>

\* merge_imports, the list final_imports
FinalImports(generated_imports, custom_imports) ==
    LET generated_paths == Distinct(generated_imports)
        IsNew(imp) ==
            /\ ~\E i \in 1..Len(custom_imports) :
                    ImportPath(custom_imports[i]) = ImportPath(imp)
            /\ ~\E i \in 1..Len(custom_imports) :
                    ModuleName(custom_imports[i]) = ModuleName(imp)
    IN  custom_imports \o SelectSeq(generated_paths, IsNew)

\* _replace_imports
ReplaceImports(text, new_imports) ==
    LET first_import == FirstIndex(text, IsLooseImport)
        last_import  == LastIndex(text, IsLooseImport)
        first_class  == FirstIndex(text, IsClassLine)
    IN  IF first_import = -1
        THEN IF first_class = -1 THEN text
             ELSE SubSeq(text, 1, first_class - 1) \o new_imports
                  \o SubSeq(text, first_class, Len(text))
        ELSE SubSeq(text, 1, first_import - 1) \o new_imports
             \o SubSeq(text, last_import + 1, Len(text))

\* _extract_imports
MergerExtractImports(text) == SelectSeq(text, IsStrictImport)

\* merge_imports
MergeImports(generated_imports, custom_imports, text) ==
    ReplaceImports(text, FinalImports(generated_imports, custom_imports))

\* preserve_file_header
PreserveFileHeader(text, existing_header) ==
    LET IsCode(l) == IsLooseImport(l) \/ IsClassLine(l)
        code_start == FirstIndex(text, IsCode)
    IN  IF code_start = -1 THEN text
        ELSE existing_header \o SubSeq(text, code_start, Len(text))

\* merge_file, first loop: does the classification raise AttributeError?
\* (a class of the existing file with the prefix that is not generated
\* reaches self.type_mapper.get_inline_struct_alias)
ClassificationRaises(generated_content, class_names) ==
    \E i \in 1..Len(class_names) :
        /\ ~HasClass(generated_content, class_names[i])
        /\ StartsWithXdr(class_names[i])
        /\ ~TypeMapperHasInlineStructAlias

\* merge_file, first loop: all_missing_classes
AllMissingClasses(generated_content, class_names) ==
    LET Missing(n) ==
            /\ ~HasClass(generated_content, n)
            /\ StartsWithXdr(n) \/ ~HasClass(generated_content, WithXdr(n))
    IN  SelectSeq(class_names, Missing)

\* the sections of the existing classes in the order of the second loop,
\* each as <<class_name, content>>
RECURSIVE SectionList(_, _, _)
SectionList(names, sections, i) ==
    IF i > Len(names) THEN <<>>
    ELSE [k \in 1..Len(sections[i]) |-> <<names[i], sections[i][k]>>]
         \o SectionList(names, sections, i + 1)

\* merge_file, second loop: a ValueError of insert_custom_section is
\* swallowed
RECURSIVE InsertSections(_, _)
InsertSections(merged_content, section_list) ==
    IF section_list = <<>> THEN merged_content
    ELSE InsertSections(
             InsertCustomSection(merged_content, Head(section_list)[1],
                                 Head(section_list)[2]).text,
             Tail(section_list))

\* merge_file(generated_content, existing_filepath): the returned text, or
\* the exception raised
MergeFile(generated_content, existing_content) ==
    LET an == AnalyzeFile(existing_content)
        all_missing == AllMissingClasses(generated_content, an.names)
        spliced == InsertSections(generated_content,
                                  SectionList(an.names, an.sections, 1))
        preserved == PreserveMissingClasses(spliced, existing_content,
                                            all_missing)
        with_imports ==
            IF an.names # <<>> /\ an.imports # <<>>
            THEN MergeImports(MergerExtractImports(preserved), an.imports,
                              preserved)
            ELSE preserved
        with_header ==
            IF an.names # <<>> /\ an.file_header # <<>>
            THEN PreserveFileHeader(with_imports, an.file_header)
            ELSE with_imports
    IN  IF existing_content = NoFile
        THEN [ok |-> TRUE, err |-> "", text |-> generated_content]
        ELSE IF ~an.ok
        THEN [ok |-> FALSE, err |-> "RuntimeError", text |-> <<>>]
        ELSE IF ClassificationRaises(generated_content, an.names)
        THEN [ok |-> FALSE, err |-> "AttributeError", text |-> <<>>]
        ELSE [ok |-> TRUE, err |-> "", text |-> with_header]

NotMerged == [ok |-> FALSE, err |-> "not called", text |-> <<>>]

(***************************************************************************)
(* generate_xdr, steps 6 to 8, for one output file                         *)
(***************************************************************************)
\* Step 6: merge with the existing file; on any exception the generated
\* content is kept for writing
Step6Merge ==
    /\ pc = "generated"
    /\ mres' = MergeFile(generated, existing)
    /\ merged_files' = IF mres'.ok THEN mres'.text ELSE generated
    /\ pc' = "merged"
    /\ UNCHANGED <<existing, generated, skip_validation, disk, mres2>>
    /\ UNCHANGED <<scanVars, resolverVars, parserVars>>
    /\ UNCHANGED <<resolveVars, lexerVars, fetchVars, insertVars>>

\* Step 7 with --skip-validation
Step7Skip ==
    /\ pc = "merged"
    /\ skip_validation
    /\ pc' = "validated"
    /\ UNCHANGED <<existing, generated, skip_validation, mres, merged_files,
                   disk, mres2>>
    /\ UNCHANGED <<scanVars, resolverVars, parserVars>>
    /\ UNCHANGED <<resolveVars, lexerVars, fetchVars, insertVars>>

\* Step 7: validate_structural passed.  Its verdict depends on the
\* signatures of the encode and decode methods, which the line level does
\* not represent: both verdicts are possible.
Step7ValidatePassed ==
    /\ pc = "merged"
    /\ ~skip_validation
    /\ pc' = "validated"
    /\ UNCHANGED <<existing, generated, skip_validation, mres, merged_files,
                   disk, mres2>>
    /\ UNCHANGED <<scanVars, resolverVars, parserVars>>
    /\ UNCHANGED <<resolveVars, lexerVars, fetchVars, insertVars>>

\* Step 7: validation failed, "Files not written", return 1
Step7ValidateFailed ==
    /\ pc = "merged"
    /\ ~skip_validation
    /\ pc' = "failed"
    /\ UNCHANGED <<existing, generated, skip_validation, mres, merged_files,
                   disk, mres2>>
    /\ UNCHANGED <<scanVars, resolverVars, parserVars>>
    /\ UNCHANGED <<resolveVars, lexerVars, fetchVars, insertVars>>

\* Step 8: write merged_files[filename] to the output directory
Step8Write ==
    /\ pc = "validated"
    /\ disk' = merged_files
    /\ pc' = "written"
    /\ UNCHANGED <<existing, generated, skip_validation, mres, merged_files,
                   mres2>>
    /\ UNCHANGED <<scanVars, resolverVars, parserVars>>
    /\ UNCHANGED <<resolveVars, lexerVars, fetchVars, insertVars>>

\* merge_file applied to its own output and the same existing file
MergeAgain ==
    /\ pc = "written"
    /\ mres.ok
    /\ mres2' = MergeFile(mres.text, existing)
    /\ pc' = "again"
    /\ UNCHANGED <<existing, generated, skip_validation, mres, merged_files,
                   disk>>
    /\ UNCHANGED <<scanVars, resolverVars, parserVars>>
    /\ UNCHANGED <<resolveVars, lexerVars, fetchVars, insertVars>>

(***************************************************************************)
(* Inputs                                                                  *)
(***************************************************************************)
\* most classes in one file
MaxClasses == 2
\* most lines between the braces of the class of the marker inputs
MaxMarkerLines == 4

Foo == <<"", "Foo">>
XdrFoo == <<"Xdr", "Foo">>
XdrBar == <<"Xdr", "Bar">>

StartLine == <<"start">>
EndLine == <<"end">>
CloseLine == <<"close">>
CommentWithQuote == <<"cmtq">>
\* hand-written members
CustomM1 == <<"meth", "m1", "block", "custom">>
CustomM2 == <<"meth", "m2", "block", "custom">>
FieldFoo == <<"field", Foo>>
\* generated members
GenM1Block == <<"meth", "m1", "block", "generated">>
GenM1Arrow == <<"meth", "m1", "arrow", "generated">>
GenM2Block == <<"meth", "m2", "block", "generated">>

\* generate_xdr, step 5: the header and the two standard imports
GeneratedHeader == <<"hdr", "g">>
ImportTypedData == <<"imp", "", "dart:typed_data">>
ImportDataIo == <<"imp", "", "xdr_data_io">>
GeneratedHead == <<GeneratedHeader, ImportTypedData, ImportDataIo>>

ExistingHeader == <<"hdr", "e">>
ImportCustom == <<"imp", "", "custom">>
ImportLibDataIo == <<"imp", "lib", "xdr_data_io">>
ImportAsConvert == <<"impas", "", "dart:convert">>
ExistingHeads ==
    { <<>>,
      <<ExistingHeader, ImportCustom, ImportLibDataIo>>,
      <<ExistingHeader, ImportAsConvert, ImportCustom>>,
      <<ImportDataIo, ImportTypedData>> }

ExistingNames == {Foo, XdrFoo, XdrBar}
ExistingBodies ==
    { <<>>,
      <<StartLine, CustomM1, FieldFoo, EndLine>>,
      <<StartLine, CustomM1, EndLine, StartLine, CustomM2, EndLine>>,
      <<CommentWithQuote>> }

GeneratedNames == {XdrFoo, XdrBar}
GeneratedBodies ==
    { <<GenM1Block, GenM2Block>>,
      <<GenM1Arrow>>,
      <<CommentWithQuote>> }

ClassText(name, body) == <<<<"class", name>>>> \o body \o <<CloseLine>>

\* the texts of up to MaxClasses classes with different names
ClassTexts(names, bodies) ==
    LET pairs == names \X bodies
        lists == {l \in SeqsUpTo(pairs, MaxClasses) :
                    \A i, j \in 1..Len(l) : i # j => l[i][1] # l[j][1]}
    IN  {Concat([i \in 1..Len(l) |-> ClassText(l[i][1], l[i][2])]) : l \in lists}

\* hand-written and generated files with well-formed marker pairs
ClassInputs ==
    {<<h \o c, GeneratedHead \o g>> :
        h \in ExistingHeads,
        c \in ClassTexts(ExistingNames, ExistingBodies),
        g \in ClassTexts(GeneratedNames, GeneratedBodies)}

\* hand-written files with markers in any order
MarkerInputs ==
    {<<ClassText(XdrFoo, ms), GeneratedHead \o ClassText(XdrFoo, <<GenM1Block>>)>> :
        ms \in SeqsUpTo({StartLine, EndLine, CustomM1}, MaxMarkerLines)}

\* no hand-written file yet
NewFileInputs ==
    {<<NoFile, GeneratedHead \o g>> :
        g \in ClassTexts(GeneratedNames, GeneratedBodies)}

Inputs == ClassInputs \cup MarkerInputs \cup NewFileInputs

(***************************************************************************)
(* Specifications                                                          *)
(***************************************************************************)
\* the run of generate_xdr from step 6 on, the default output directory
\* lib/src/xdr/ holding the existing file
Init ==
    /\ ResolveIdle
    /\ LexerIdle
    /\ FetchIdle
    /\ InsertIdle
    /\ ScanIdle
    /\ \E in \in Inputs : existing = in[1] /\ generated = in[2]
    /\ skip_validation \in BOOLEAN
    /\ pc = "generated"
    /\ mres = NotMerged
    /\ merged_files = <<>>
    /\ disk = existing
    /\ mres2 = NotMerged
    /\ ResolverIdle
    /\ ParserIdle

Next ==
    \/ Step6Merge
    \/ Step7Skip
    \/ Step7ValidatePassed
    \/ Step7ValidateFailed
    \/ Step8Write
    \/ MergeAgain

Spec == Init /\ [][Next]_vars

\* _find_matching_brace on every text of at most MaxScanLen characters
\* after the opening brace
InitScan ==
    /\ ResolveIdle
    /\ LexerIdle
    /\ FetchIdle
    /\ InsertIdle
    /\ \E w \in SeqsUpTo(ScanChars, MaxScanLen) : ScanStart(<<"{">> \o w)
    /\ existing = NoFile
    /\ generated = <<>>
    /\ skip_validation = FALSE
    /\ pc = "scan"
    /\ mres = NotMerged
    /\ merged_files = <<>>
    /\ disk = NoFile
    /\ mres2 = NotMerged
    /\ ResolverIdle
    /\ ParserIdle

NextScan ==
    \/ LineCommentStart
    \/ LineCommentEnd
    \/ BlockCommentStart
    \/ BlockCommentEnd
    \/ SkipComment
    \/ ScanChar
    \/ ScanExhausted

SpecScan == InitScan /\ [][NextScan]_vars

(***************************************************************************)
(* Properties                                                              *)
(***************************************************************************)
\* merge_file has been called in this run
Merged == pc \in {"merged", "validated", "failed", "written", "again"}

ContainsSub(s, sub) ==
    \E i \in 0..(Len(s) - Len(sub)) : SubSeq(s, i + 1, i + Len(sub)) = sub

EndsWith(s, suffix) ==
    /\ Len(suffix) <= Len(s)
    /\ SubSeq(s, Len(s) - Len(suffix) + 1, Len(s)) = suffix

\* the classes of the hand-written file and their custom sections
ExistingAnalysis == AnalyzeFile(existing)
ExistingClassCount == Len(ExistingAnalysis.names)

\* the body of a class of a text, between its brace and the matching one
BodyOf(text, name) ==
    LET ci == ClassIndex(text, name)
        ce == FindMatchingBrace(text, ci)
    IN  IF ci = -1 THEN <<>>
        ELSE IF ce = -1 THEN <<>>
        ELSE SubSeq(text, ci + 1, ce - 1)

HasMarker(body) == \E i \in 1..Len(body) : IsStart(body[i])

\* the sections of a class, each with its markers, one after the other
RECURSIVE FormattedSections(_)
FormattedSections(sections) ==
    IF sections = <<>> THEN <<>>
    ELSE FormatCustomSection(Head(sections)) \o FormattedSections(Tail(sections))

\* the lines with every class name reduced to its base name
WithoutPrefixes(code) ==
    [i \in 1..Len(code) |->
        IF Kind(code[i]) \in {"class", "field"}
        THEN <<code[i][1], <<"", code[i][2][2]>>>> ELSE code[i]]

MethodCount(body, m) ==
    Cardinality({i \in 1..Len(body) : Kind(body[i]) = "meth" /\ body[i][2] = m})

\* C1: merging the output of a successful merge against the same existing
\* file again returns the same text, and no class body of it holds the same
\* custom section twice.
C1_MergeIdempotent ==
    pc = "again" =>
        /\ mres2.ok
        /\ mres2.text = mres.text
        /\ \A n \in {mres2.text[i][2] : i \in {j \in 1..Len(mres2.text) :
                                                IsClassLine(mres2.text[j])}} :
              LET secs == ExtractCustomSectionsForClass(mres2.text, n)
              IN  \A a, b \in 1..Len(secs) :
                      (a # b /\ secs[a] # <<>>) => secs[a] # secs[b]

\* C2: when merge_file failed for the file, the run does not write the
\* file: the hand-written file in the output directory stays as it was.
C2_NoWriteAfterFailedMerge ==
    (pc \in {"written", "again"} /\ ~mres.ok) => disk = existing

\* the markers of a text are start, end, start, end, ...
StrictlyAlternates(text) ==
    LET IsMarker(l) == IsStart(l) \/ IsEnd(l)
        ms == SelectSeq(text, IsMarker)
    IN  /\ Len(ms) % 2 = 0
        /\ \A i \in 1..Len(ms) :
              ms[i] = IF i % 2 = 1 THEN StartLine ELSE EndLine

\* C3: marker validation of the existing text passes only when the start
\* and end markers strictly alternate; otherwise analyze_file fails and
\* merge_file raises and returns no merged text.
C3_MarkerValidation ==
    (Merged /\ existing # NoFile) =>
        /\ mres.err # "RuntimeError" => StrictlyAlternates(existing)
        /\ ~StrictlyAlternates(existing) =>
              /\ ~mres.ok
              /\ mres.err = "RuntimeError"
              /\ mres.text = <<>>
              /\ merged_files # mres.text

\* a file with as many start as end markers, but not alternating, was
\* rejected
C3_Witness ==
    /\ pc = "merged"
    /\ existing # NoFile
    /\ Count(existing, IsStart) = Count(existing, IsEnd)
    /\ Count(existing, IsStart) > 0
    /\ ~StrictlyAlternates(existing)
    /\ mres.err = "RuntimeError"

\* C4: every class of the existing file that is generated too and has
\* n >= 1 custom sections (the generated body having no marker) has, in the
\* merged text, all n sections with their markers right before its closing
\* brace.
C4_AllSectionsSpliced ==
    (Merged /\ existing # NoFile) =>
        \A i \in 1..ExistingClassCount :
            LET name == ExistingAnalysis.names[i]
                secs == ExistingAnalysis.sections[i]
            IN  ( /\ HasClass(generated, name)
                  /\ Len(secs) >= 1
                  /\ ~HasMarker(BodyOf(generated, name)) )
                =>  /\ mres.ok
                    /\ EndsWith(BodyOf(mres.text, name), FormattedSections(secs))

\* C5: a class Foo of the existing file without the prefix and with a
\* custom section, generated as XdrFoo only, is matched by XdrFoo: its
\* section is in the body of XdrFoo in the merged text.
C5_SectionKeptUnderPrefixedName ==
    (Merged /\ existing # NoFile) =>
        \A i \in 1..ExistingClassCount :
            LET name == ExistingAnalysis.names[i]
                secs == ExistingAnalysis.sections[i]
            IN  ( /\ ~StartsWithXdr(name)
                  /\ Len(secs) >= 1
                  /\ HasClass(generated, WithXdr(name))
                  /\ ~HasClass(generated, name) )
                =>  /\ mres.ok
                    /\ \A k \in 1..Len(secs) :
                          ContainsSub(BodyOf(mres.text, WithXdr(name)), secs[k])

\* C6: every class of the existing file that is not generated, with or
\* without the prefix, is preserved: merge_file succeeds and the merged
\* text has the class's source after the label of the preserved classes.
C6_MissingClassPreserved ==
    (Merged /\ existing # NoFile /\ ExistingAnalysis.ok) =>
        \A i \in 1..ExistingClassCount :
            LET name == ExistingAnalysis.names[i]
                IsLabel(l) == Kind(l) = "label"
                at == FirstIndex(mres.text, IsLabel)
            IN  ~HasClass(generated, name)
                =>  /\ mres.ok
                    /\ at # -1
                    /\ ContainsSub(SubSeq(mres.text, at + 1, Len(mres.text)),
                                   ExtractClassCode(existing, name))

\* C7: a class Foo of the existing file without the prefix and with a
\* custom section, generated neither as Foo nor as XdrFoo, is in the
\* merged text as class XdrFoo, its body holding the section's markers and
\* content (class names in the content compared by their base names).
C7_PreservedUnderPrefixedName ==
    (Merged /\ existing # NoFile /\ ExistingAnalysis.ok) =>
        \A i \in 1..ExistingClassCount :
            LET name == ExistingAnalysis.names[i]
                secs == ExistingAnalysis.sections[i]
            IN  ( /\ ~StartsWithXdr(name)
                  /\ Len(secs) >= 1
                  /\ ~HasClass(generated, name)
                  /\ ~HasClass(generated, WithXdr(name)) )
                =>  /\ mres.ok
                    /\ HasClass(mres.text, WithXdr(name))
                    /\ \A k \in 1..Len(secs) :
                          ContainsSub(
                              WithoutPrefixes(BodyOf(mres.text, WithXdr(name))),
                              WithoutPrefixes(FormatCustomSection(secs[k])))

\* C8: once a custom section is spliced into a generated class, every
\* method name the section declares has exactly one definition in the
\* merged class body.
C8_SingleDefinitionPerCustomMethod ==
    (Merged /\ existing # NoFile /\ mres.ok) =>
        \A i \in 1..ExistingClassCount :
            LET name == ExistingAnalysis.names[i]
                secs == ExistingAnalysis.sections[i]
                body == BodyOf(mres.text, name)
            IN  \A k \in 1..Len(secs) :
                    ( /\ HasClass(generated, name)
                      /\ ~HasMarker(BodyOf(generated, name))
                      /\ ContainsSub(body, FormatCustomSection(secs[k])) )
                    => \A j \in 1..Len(DetectMethodsInCustomCode(secs[k])) :
                          MethodCount(body,
                              DetectMethodsInCustomCode(secs[k])[j]) = 1

\* C9: the imports of the merged text are the import lines of the existing
\* file in their order, followed by exactly the generated import lines
\* whose path and whose module name no existing import has.
C9_ImportBlock ==
    (Merged /\ existing # NoFile /\ mres.ok) =>
        LET old == SelectSeq(existing, IsLooseImport)
            IsNew(imp) ==
                /\ ~\E i \in 1..Len(old) : ImportPath(old[i]) = ImportPath(imp)
                /\ ~\E i \in 1..Len(old) : ModuleName(old[i]) = ModuleName(imp)
        IN  SelectSeq(mres.text, IsLooseImport)
              = old \o SelectSeq(SelectSeq(generated, IsLooseImport), IsNew)

\* the braces the scanner examined in the normal state, up to index r
CountedBraces(r, brace) ==
    Cardinality({i \in 0..r : /\ i < Len(mode_at)
                              /\ mode_at[i + 1] = "normal"
                              /\ CharAt(content, i) = brace})

\* the depth after index r, by the recorded states
Balance(r) == CountedBraces(r, "{") - CountedBraces(r, "}")

ScanStateOk ==
    /\ Cardinality({f \in {"string", "line", "block"} :
                       \/ f = "string" /\ in_string
                       \/ f = "line" /\ in_single_comment
                       \/ f = "block" /\ in_multi_comment}) <= 1
    /\ in_string <=> string_char # ""
    /\ scan_pc = "loop" => depth = Balance(Len(content))
    /\ (scan_pc = "returned" /\ scan_result # -1) =>
          /\ scan_result \in 1..(Len(content) - 1)
          /\ CharAt(content, scan_result) = "}"
          /\ mode_at[scan_result + 1] = "normal"
          /\ Balance(scan_result) = 0
          /\ \A i \in 0..(scan_result - 1) : Balance(i) > 0
    /\ (scan_pc = "returned" /\ scan_result = -1) =>
          /\ Len(mode_at) = Len(content)
          /\ \A i \in 0..(Len(content) - 1) : Balance(i) > 0

ScanStepOk ==
    /\ depth' # depth =>
          /\ ScanMode = "normal"
          /\ char \in {"{", "}"}
    /\ (scan_pc = "loop" /\ in_string /\ char \in {"q", "d"}
          /\ prev_char = "b") =>
          /\ in_string'
          /\ string_char' = string_char
          /\ depth' = depth

\* C10: _find_matching_brace is at every step in exactly one of the states
\* normal, line comment, block comment, string; it changes the depth only
\* on a brace examined in the normal state; a quote after a backslash does
\* not end a string; it returns the first closing brace at which the
\* braces of the normal state balance the opening one, or -1 if none does.
C10_BraceScanner == [](ScanStateOk) /\ [][ScanStepOk]_vars

\* a balancing brace was returned after a brace inside a string or a
\* comment was passed over
C10_Witness ==
    /\ scan_pc = "returned"
    /\ scan_result # -1
    /\ \E i \in 1..Len(mode_at) :
          /\ mode_at[i] \in {"string", "line", "block"}
          /\ content[i] \in {"{", "}"}

(***************************************************************************)
(* TypeMapper and FileMapper on names                                      *)
(*                                                                         *)
(* Names are strings.  The string functions of the code that TLA+ has no   *)
(* operator for (first letter, prefix, substring) are given on the names   *)
(* that occur in the model.                                                *)
(***************************************************************************)
\* largest number of build_dependency_graph calls on one resolver
MaxBuilds == 2

\* s[0].upper() + s[1:]
Capitalize(s) ==
    CASE s = "int"   -> "Int"
      [] s = "int32" -> "Int32"
      [] s = "uint32" -> "Uint32"
      [] s = "int64" -> "Int64"
      [] s = "uint64" -> "Uint64"
      [] s = "bool"  -> "Bool"
      [] s = "ext"   -> "Ext"
      [] s = "body"  -> "Body"
      [] s = "v"     -> "V"
      [] s = "code"  -> "Code"
      [] OTHER       -> s

\* the type names of the IDL texts of the model
XdrTypeNames == {"Asset", "Memo", "Offer"}

\* xdr_name.startswith('Xdr')
NameStartsWithXdr(xdr_name) ==
    \E n \in XdrTypeNames \cup {"Int32", "Uint32", "Int64", "Uint64"} :
        xdr_name = "Xdr" \o n

CLASS_NAME_MAPPINGS ==
    [n \in {"TrustLineAsset", "AlphaNum4", "AlphaNum12"} |->
        CASE n = "TrustLineAsset" -> "TrustlineAsset"
          [] n = "AlphaNum4" -> "AssetAlphaNum4"
          [] n = "AlphaNum12" -> "AssetAlphaNum12"]

PRIMITIVE_TYPES ==
    {"int32", "uint32", "int64", "uint64", "bool", "hyper", "unsigned hyper"}

\* TypeMapper.get_dart_class_name
GetDartClassName(xdr_name) ==
    IF NameStartsWithXdr(xdr_name) THEN xdr_name
    ELSE IF xdr_name \in DOMAIN CLASS_NAME_MAPPINGS
         THEN "Xdr" \o CLASS_NAME_MAPPINGS[xdr_name]
    ELSE IF xdr_name # "" THEN "Xdr" \o Capitalize(xdr_name)
    ELSE "Xdr"

\* TypeMapper.is_primitive
IsPrimitive(type_name) == type_name \in PRIMITIVE_TYPES

\* TypeMapper.needs_wrapper, on primitive types
NeedsWrapper(type_name) == type_name \in PRIMITIVE_TYPES \ {"bool"}

\* TypeMapper.map_type, on primitive types
MapType(xdr_type) ==
    CASE xdr_type \in {"int32"} -> "XdrInt32"
      [] xdr_type \in {"uint32"} -> "XdrUint32"
      [] xdr_type \in {"int64", "hyper"} -> "XdrInt64"
      [] xdr_type \in {"uint64", "unsigned hyper"} -> "XdrUint64"
      [] xdr_type = "bool" -> "bool"
      [] OTHER -> GetDartClassName(xdr_type)

\* the Dart files of the model in the order of Python's string comparison
FileOrder == <<"xdr_asset.dart", "xdr_memo.dart", "xdr_offer.dart",
               "xdr_other.dart">>

FileRank(f) == CHOOSE i \in 1..Len(FileOrder) : FileOrder[i] = f

\* file_a < file_b
FileLess(file_a, file_b) == FileRank(file_a) < FileRank(file_b)

\* FileMapper.infer_file_for_type: the first file of the pattern table one
\* of whose keywords occurs in the name without its Xdr prefix
InferFileForType(type_name) ==
    CASE type_name = "XdrAsset" -> "xdr_asset.dart"
      [] type_name = "XdrMemo"  -> "xdr_memo.dart"
      [] type_name = "XdrOffer" -> "xdr_offer.dart"
      [] OTHER -> "xdr_other.dart"

\* dict[key] = value
Put(dict, key, value) == (key :> value) @@ dict

\* dict.get(key, default)
Get(dict, key, default) == IF key \in DOMAIN dict THEN dict[key] ELSE default

(***************************************************************************)
(* DependencyResolver                                                      *)
(*                                                                         *)
(* A definition is a record: kind, name, the type_name of its fields (for  *)
(* a union: of its cases, "void" for a case without field), its            *)
(* discriminant_type and its underlying_type.  A type string is a record   *)
(* of its leading identifier and the marker that follows it.               *)
(***************************************************************************)
TypeString(base, suffix) == [base |-> base, suffix |-> suffix]

Definition(kind, name, fields, discriminant_type, underlying_type) ==
    [kind |-> kind, name |-> name, fields |-> fields,
     discriminant_type |-> discriminant_type,
     underlying_type |-> underlying_type]

\* all_definitions of one XdrFile: enums, structs, unions, typedefs
AllDefinitionsOf(f) == f.enums \o f.structs \o f.unions \o f.typedefs

\* the definitions in the order of the two loops over parsed_files.items()
RECURSIVE AllDefinitions(_)
AllDefinitions(files) ==
    IF files = <<>> THEN <<>>
    ELSE AllDefinitionsOf(Head(files)) \o AllDefinitions(Tail(files))

\* re.match(r'^([a-zA-Z_][a-zA-Z0-9_\s]*)', type_string).group(1).strip()
BaseType(type_string) == type_string.base

\* _extract_type_string_references
ExtractTypeStringReferences(type_string) ==
    LET base_type == BaseType(type_string)
    IN  IF base_type = "" THEN {}
        ELSE IF IsPrimitive(base_type)
             THEN IF NeedsWrapper(base_type) THEN {MapType(base_type)} ELSE {}
        ELSE IF base_type \in {"void", "opaque", "string"} THEN {}
        ELSE {GetDartClassName(base_type)}

\* _extract_field_type_references over all fields of a struct
ExtractFieldTypeReferences(fields) ==
    UNION {ExtractTypeStringReferences(TypeString(fields[i], "")) :
              i \in 1..Len(fields)}

\* _extract_case_type_references over all cases of a union
ExtractCaseTypeReferences(cases) ==
    UNION {IF cases[i] # "void"
           THEN ExtractTypeStringReferences(TypeString(cases[i], ""))
           ELSE {} : i \in 1..Len(cases)}

\* _extract_type_references
ExtractTypeReferences(definition) ==
    CASE definition.kind = "struct" ->
            ExtractFieldTypeReferences(definition.fields)
      [] definition.kind = "union" ->
            (IF definition.discriminant_type \notin {"int", "unsigned int", "bool"}
                /\ ~IsPrimitive(definition.discriminant_type)
             THEN {GetDartClassName(definition.discriminant_type)} ELSE {})
            \cup ExtractCaseTypeReferences(definition.fields)
      [] definition.kind = "typedef" ->
            ExtractTypeStringReferences(definition.underlying_type)
      [] OTHER -> {}

\* first pass of build_dependency_graph: assign all types to files
RECURSIVE AssignTypes(_, _, _)
AssignTypes(defs, fm, ttf) ==
    IF defs = <<>> THEN [file_mapper |-> fm, type_to_file |-> ttf]
    ELSE LET dart_name == GetDartClassName(Head(defs).name)
             known == dart_name \in DOMAIN fm
             target_file == IF known THEN fm[dart_name]
                            ELSE InferFileForType(dart_name)
         IN  AssignTypes(Tail(defs),
                         IF known THEN fm ELSE Put(fm, dart_name, target_file),
                         Put(ttf, dart_name, target_file))

\* the loop over referenced_types: convert to file dependencies
AddFileDependencies(fd, ttf, source_file, referenced_types) ==
    LET ref_files == {ttf[r] : r \in referenced_types \cap DOMAIN ttf}
                        \ {source_file}
    IN  IF ref_files = {} THEN fd
        ELSE Put(fd, source_file, Get(fd, source_file, {}) \cup ref_files)

\* second pass of build_dependency_graph: analyze dependencies
RECURSIVE AnalyzeDependencies(_, _, _, _)
AnalyzeDependencies(defs, ttf, td, fd) ==
    IF defs = <<>> THEN [type_dependencies |-> td, file_dependencies |-> fd]
    ELSE LET dart_name == GetDartClassName(Head(defs).name)
             source_file == Get(ttf, dart_name, "")
             referenced_types == ExtractTypeReferences(Head(defs))
         IN  IF source_file = ""
             THEN AnalyzeDependencies(Tail(defs), ttf, td, fd)
             ELSE AnalyzeDependencies(Tail(defs), ttf,
                      Put(td, dart_name, referenced_types),
                      AddFileDependencies(fd, ttf, source_file, referenced_types))

\* build_dependency_graph on a resolver whose attributes are fm, ttf, td, fd
BuildGraph(files, fm, ttf, td, fd) ==
    LET first == AssignTypes(AllDefinitions(files), fm, ttf)
        second == AnalyzeDependencies(AllDefinitions(files),
                                      first.type_to_file, td, fd)
    IN  [file_mapper |-> first.file_mapper,
         type_to_file |-> first.type_to_file,
         type_dependencies |-> second.type_dependencies,
         file_dependencies |-> second.file_dependencies]

\* the orders in which a set can be iterated
Orderings(S) ==
    {o \in [1..Cardinality(S) -> S] : \A i, j \in DOMAIN o : i # j => o[i] # o[j]}

\* the edges (file_a, file_b) in the order of the two loops of
\* detect_circular_dependencies: keys in key_order, each set in the order
\* of FileOrder
EdgesInOrder(fd, key_order) ==
    LET RECURSIVE OfKeys(_)
        OfKeys(ks) ==
            IF ks = <<>> THEN <<>>
            ELSE SelectSeq([i \in 1..Len(FileOrder) |-> <<Head(ks), FileOrder[i]>>],
                           LAMBDA e : e[2] \in fd[Head(ks)])
                 \o OfKeys(Tail(ks))
    IN  OfKeys(key_order)

\* the guard "if file_a < file_b" that avoids duplicates, without the guard
ReportPairAlways(file_a, file_b) == TRUE
ReportPair(file_a, file_b) == FileLess(file_a, file_b)

\* detect_circular_dependencies, and before it a check that reports every
\* dependency, mutual or not
DetectCircularAnyEdge(fd, key_order) == EdgesInOrder(fd, key_order)
DetectCircular(fd, key_order) ==
    SelectSeq(EdgesInOrder(fd, key_order),
              LAMBDA e : /\ e[1] \in Get(fd, e[2], {})
                         /\ ReportPair(e[1], e[2]))

\* the files of the graph: keys of file_dependencies and the files
\* depended upon
FilesOf(fd) == DOMAIN fd \cup UNION {fd[k] : k \in DOMAIN fd}

BuildDependencyGraph(files) ==
    /\ topo_pc = "idle"
    /\ builds < MaxBuilds
    /\ LET g == BuildGraph(files, file_mapper, type_to_file,
                           type_dependencies, file_dependencies)
       IN  /\ file_mapper' = g.file_mapper
           /\ type_to_file' = g.type_to_file
           /\ type_dependencies' = g.type_dependencies
           /\ file_dependencies' = g.file_dependencies
    /\ parsed_files' = files
    /\ builds' = builds + 1
    /\ UNCHANGED <<circles, topo_pc, all_files, in_degree, queue, result>>
    /\ UNCHANGED <<scanVars, runVars, parserVars>>
    /\ UNCHANGED <<resolveVars, lexerVars, fetchVars, insertVars>>

DetectCircularDependencies ==
    /\ topo_pc = "idle"
    /\ builds > 0
    /\ \E key_order \in Orderings(DOMAIN file_dependencies) :
           circles' = DetectCircular(file_dependencies, key_order)
    /\ topo_pc' = "circles"
    /\ UNCHANGED <<file_mapper, parsed_files, type_to_file, file_dependencies,
                   type_dependencies, builds, all_files, in_degree, queue,
                   result>>
    /\ UNCHANGED <<scanVars, runVars, parserVars>>
    /\ UNCHANGED <<resolveVars, lexerVars, fetchVars, insertVars>>

\* the list circles of get_topological_order; whether it is empty does not
\* depend on the order of iteration
TopoCircles ==
    DetectCircular(file_dependencies,
                   CHOOSE o \in Orderings(DOMAIN file_dependencies) : TRUE)

\* get_topological_order: "if circles: raise ValueError"
TopoRaiseCircular ==
    /\ topo_pc = "idle"
    /\ builds > 0
    /\ TopoCircles # <<>>
    /\ topo_pc' = "raised"
    /\ UNCHANGED <<file_mapper, parsed_files, type_to_file, file_dependencies,
                   type_dependencies, builds, circles, all_files, in_degree,
                   queue, result>>
    /\ UNCHANGED <<scanVars, runVars, parserVars>>
    /\ UNCHANGED <<resolveVars, lexerVars, fetchVars, insertVars>>

\* get_topological_order up to the while loop
TopoBegin ==
    /\ topo_pc = "idle"
    /\ builds > 0
    /\ TopoCircles = <<>>
    /\ all_files' = FilesOf(file_dependencies)
    /\ in_degree' = [f \in FilesOf(file_dependencies) |->
                        Cardinality({k \in DOMAIN file_dependencies :
                                        f \in file_dependencies[k]})]
    /\ \E o \in Orderings({f \in FilesOf(file_dependencies) : in_degree'[f] = 0}) :
           queue' = o
    /\ result' = <<>>
    /\ topo_pc' = "loop"
    /\ UNCHANGED <<file_mapper, parsed_files, type_to_file, file_dependencies,
                   type_dependencies, builds, circles>>
    /\ UNCHANGED <<scanVars, runVars, parserVars>>
    /\ UNCHANGED <<resolveVars, lexerVars, fetchVars, insertVars>>

\* one iteration of "while queue"
TopoPop ==
    /\ topo_pc = "loop"
    /\ queue # <<>>
    /\ LET file == Head(queue)
           hit == {other_file \in all_files :
                      file \in Get(file_dependencies, other_file, {})}
           lowered == [f \in all_files |->
                          IF f \in hit THEN in_degree[f] - 1 ELSE in_degree[f]]
       IN  /\ result' = Append(result, file)
           /\ in_degree' = lowered
           /\ \E o \in Orderings({f \in hit : lowered[f] = 0}) :
                  queue' = Tail(queue) \o o
    /\ UNCHANGED <<file_mapper, parsed_files, type_to_file, file_dependencies,
                   type_dependencies, builds, circles, topo_pc, all_files>>
    /\ UNCHANGED <<scanVars, runVars, parserVars>>
    /\ UNCHANGED <<resolveVars, lexerVars, fetchVars, insertVars>>

\* "return result"
TopoReturn ==
    /\ topo_pc = "loop"
    /\ queue = <<>>
    /\ Len(result) = Cardinality(all_files)
    /\ topo_pc' = "returned"
    /\ UNCHANGED <<file_mapper, parsed_files, type_to_file, file_dependencies,
                   type_dependencies, builds, circles, all_files, in_degree,
                   queue, result>>
    /\ UNCHANGED <<scanVars, runVars, parserVars>>
    /\ UNCHANGED <<resolveVars, lexerVars, fetchVars, insertVars>>

\* "if len(result) != len(all_files): raise ValueError"
TopoRaiseUnable ==
    /\ topo_pc = "loop"
    /\ queue = <<>>
    /\ Len(result) # Cardinality(all_files)
    /\ topo_pc' = "raised"
    /\ UNCHANGED <<file_mapper, parsed_files, type_to_file, file_dependencies,
                   type_dependencies, builds, circles, all_files, in_degree,
                   queue, result>>
    /\ UNCHANGED <<scanVars, runVars, parserVars>>
    /\ UNCHANGED <<resolveVars, lexerVars, fetchVars, insertVars>>

(***************************************************************************)
(* Inputs of the resolver: parsed files over the types Asset, Memo, Offer  *)
(***************************************************************************)
NoType == TypeString("", "")

StructAsset(fields) == Definition("struct", "Asset", fields, "", NoType)
UnionMemo(discriminant_type, cases) ==
    Definition("union", "Memo", cases, discriminant_type, NoType)
EnumOffer == Definition("enum", "Offer", <<>>, "", NoType)
TypedefOffer(underlying_type) ==
    Definition("typedef", "Offer", <<>>, "", underlying_type)

\* struct Asset { ... }: no field, a field of another type, of its own type
\* (Asset* next), of primitive and string type
AssetDefinitions ==
    {StructAsset(<<>>), StructAsset(<<"Memo">>), StructAsset(<<"Offer">>),
     StructAsset(<<"Asset">>), StructAsset(<<"uint32", "string">>)}

\* union Memo switch (int v) { case 0: void; },
\* union Memo switch (Offer type) { case A: void; } and
\* union Memo switch (Offer type) { case A: Asset asset; case B: void; }
MemoDefinitions ==
    {UnionMemo("int", <<"void">>), UnionMemo("Offer", <<"void">>),
     UnionMemo("Offer", <<"Asset", "void">>)}

\* enum Offer {..}, typedef opaque Offer<>, typedef Memo* Offer,
\* typedef Asset Offer
OfferDefinitions ==
    {EnumOffer, TypedefOffer(TypeString("opaque", "")),
     TypedefOffer(TypeString("Memo", "*")),
     TypedefOffer(TypeString("Asset", ""))}

OptionalDefinition(S) == {<<>>} \cup {<<d>> : d \in S}

XdrFileOf(defs) ==
    [enums |-> SelectSeq(defs, LAMBDA d : d.kind = "enum"),
     structs |-> SelectSeq(defs, LAMBDA d : d.kind = "struct"),
     unions |-> SelectSeq(defs, LAMBDA d : d.kind = "union"),
     typedefs |-> SelectSeq(defs, LAMBDA d : d.kind = "typedef")]

\* parsed_files: one XdrFile with at least one definition
ParsedFilesInputs ==
    {<<XdrFileOf(a \o m \o o)>> :
        a \in OptionalDefinition(AssetDefinitions),
        m \in OptionalDefinition(MemoDefinitions),
        o \in OptionalDefinition(OfferDefinitions)} \ {<<XdrFileOf(<<>>)>>}

\* FileMapper.__init__: no directory of Dart files, or a directory whose
\* xdr_memo.dart declares class XdrOffer
FileMapperInputs == {<<>>, "XdrOffer" :> "xdr_memo.dart"}

RunIdle ==
    /\ existing = NoFile
    /\ generated = <<>>
    /\ skip_validation = FALSE
    /\ pc = "idle"
    /\ mres = NotMerged
    /\ merged_files = <<>>
    /\ disk = NoFile
    /\ mres2 = NotMerged

\* a new DependencyResolver
InitDeps ==
    /\ ResolveIdle
    /\ LexerIdle
    /\ FetchIdle
    /\ InsertIdle
    /\ ScanIdle
    /\ RunIdle
    /\ ParserIdle
    /\ file_mapper \in FileMapperInputs
    /\ parsed_files = <<>>
    /\ type_to_file = <<>>
    /\ file_dependencies = <<>>
    /\ type_dependencies = <<>>
    /\ builds = 0
    /\ circles = <<>>
    /\ topo_pc = "idle"
    /\ all_files = {}
    /\ in_degree = <<>>
    /\ queue = <<>>
    /\ result = <<>>

NextDeps ==
    \/ \E files \in ParsedFilesInputs : BuildDependencyGraph(files)
    \/ DetectCircularDependencies
    \/ TopoRaiseCircular
    \/ TopoBegin
    \/ TopoPop
    \/ TopoReturn
    \/ TopoRaiseUnable

SpecDeps == InitDeps /\ [][NextDeps]_vars

(***************************************************************************)
(* Properties of the dependency resolver                                   *)
(***************************************************************************)
ModelFiles == {FileOrder[i] : i \in 1..Len(FileOrder)}

\* the files that f depends on
DependsOn(f) == Get(file_dependencies, f, {})

RECURSIVE ReachIn(_, _)
ReachIn(S, n) ==
    IF n = 0 THEN S ELSE ReachIn(S \cup UNION {DependsOn(x) : x \in S}, n - 1)

\* the files reached from f over one or more edges
Reach(f) == ReachIn(DependsOn(f), Len(FileOrder))

HasDirectedCycle == \E f \in FilesOf(file_dependencies) : f \in Reach(f)

TopoFinished == topo_pc \in {"returned", "raised"}

Before(y, x, list) ==
    \E i, j \in 1..Len(list) : i < j /\ list[i] = y /\ list[j] = x

Occurrences(list, x) == Cardinality({i \in 1..Len(list) : list[i] = x})

\* C11: for every acyclic file graph get_topological_order returns a list
\* in which, for every edge "X depends on Y", Y appears before X.
C11_DependenciesFirst ==
    (TopoFinished /\ ~HasDirectedCycle) =>
        /\ topo_pc = "returned"
        /\ \A x \in DOMAIN file_dependencies :
               \A y \in file_dependencies[x] : Before(y, x, result)

\* C12: get_topological_order raises exactly when the file graph has a
\* directed cycle, and otherwise returns every file of the graph exactly
\* once.
C12_RaisesExactlyOnCycle ==
    TopoFinished =>
        /\ (topo_pc = "raised") <=> HasDirectedCycle
        /\ topo_pc = "returned" =>
               \A f \in FilesOf(file_dependencies) : Occurrences(result, f) = 1

\* C13: detect_circular_dependencies returns exactly the pairs (a, b) with
\* a < b of files that depend on each other, each of them once.
C13_CircularPairs ==
    topo_pc = "circles" =>
        \A a, b \in ModelFiles :
            Occurrences(circles, <<a, b>>) =
                IF FileLess(a, b) /\ b \in DependsOn(a) /\ a \in DependsOn(b)
                THEN 1 ELSE 0

\* a call that reported a pair while another edge has no reverse edge
C13_Witness ==
    /\ topo_pc = "circles"
    /\ circles # <<>>
    /\ \E a \in DOMAIN file_dependencies :
           \E b \in file_dependencies[a] : a \notin DependsOn(b)

\* the base types a definition names: struct fields, union discriminant
\* and case fields, typedef's underlying type
NamedBaseTypes(d) ==
    CASE d.kind = "struct" -> {d.fields[i] : i \in 1..Len(d.fields)}
      [] d.kind = "union" ->
            {d.discriminant_type} \cup {d.fields[i] : i \in 1..Len(d.fields)}
      [] d.kind = "typedef" -> {d.underlying_type.base}
      [] OTHER -> {}

NoReferenceBaseTypes ==
    PRIMITIVE_TYPES \cup {"int", "unsigned int", "void", "opaque", "string"}

LastDefinitions ==
    {AllDefinitions(parsed_files)[i] : i \in 1..Len(AllDefinitions(parsed_files))}

\* C14: the recorded references of a processed definition are types that
\* the definition names, none of them a primitive, void, opaque or string
\* base type, none of them the definition itself.
C14_ReferencedTypes ==
    builds > 0 =>
        \A d \in LastDefinitions :
            \A r \in type_dependencies[GetDartClassName(d.name)] :
                /\ r # GetDartClassName(d.name)
                /\ \E base \in NamedBaseTypes(d) \ NoReferenceBaseTypes :
                       r = GetDartClassName(base)

\* some type assigned to f references some type assigned to g
TypeOfReferences(f, g) ==
    \E t \in DOMAIN type_to_file \cap DOMAIN type_dependencies :
        \E r \in type_dependencies[t] \cap DOMAIN type_to_file :
            type_to_file[t] = f /\ type_to_file[r] = g

\* C15: after build_dependency_graph file f depends on file g iff they
\* differ and a type of f references a type of g; no file depends on
\* itself.
C15_FileGraph ==
    builds > 0 =>
        \A f, g \in ModelFiles :
            /\ (g \in DependsOn(f)) <=> (f # g /\ TypeOfReferences(f, g))
            /\ f \notin DependsOn(f)

\* C16: the maps and graphs after a call are those of a new resolver given
\* the files of that call.
C16_NoCrossCallState ==
    builds > 0 =>
        LET g == BuildGraph(parsed_files, file_mapper, <<>>, <<>>, <<>>)
        IN  /\ type_to_file = g.type_to_file
            /\ type_dependencies = g.type_dependencies
            /\ file_dependencies = g.file_dependencies

(***************************************************************************)
(* XdrLexer on lexical items                                               *)
(*                                                                         *)
(* The IDL text is a sequence of items separated by white space: a word    *)
(* (keyword, identifier or symbol) or a numeric literal, the latter given  *)
(* character by character.  A token carries its type, its value and, for   *)
(* a NUMBER, the characters of the value.                                  *)
(***************************************************************************)
Word(w) == <<w, <<>>>>
Literal(chars) == <<"", chars>>

KEYWORDS ==
    {"typedef", "enum", "struct", "union", "switch", "case", "default",
     "void", "const", "opaque", "string", "unsigned", "int", "hyper",
     "float", "double", "bool", "namespace"}

SYMBOLS == {"{", "}", "[", "]", "<", ">", "(", ")", ";", ":", ",", "=", "*"}

Token(type, value, text) == [type |-> type, value |-> value, text |-> text]

DecimalDigits == {"0", "1", "2", "3", "4", "5", "6", "7", "8", "9"}

HexDigits ==
    DecimalDigits \cup {"a", "b", "c", "d", "e", "f", "A", "B", "C", "D", "E", "F"}

\* XdrLexer._is_hex_digit
IsHexDigit(c) == c \in HexDigits

\* the characters of chars from index i on up to the first one outside S
RECURSIVE TakeWhile(_, _, _)
TakeWhile(chars, i, S) ==
    IF i <= Len(chars) /\ chars[i] \in S
    THEN <<chars[i]>> \o TakeWhile(chars, i + 1, S)
    ELSE <<>>

IsDecimalDigit(c) == c \in DecimalDigits

\* XdrLexer._try_number on the characters of one item: whether a NUMBER
\* token is appended, its value, or the XdrLexerError of "0x" without digit
TryNumber(chars) ==
    LET none == [matched |-> FALSE, error |-> FALSE, value |-> <<>>]
    IN  IF chars = <<>> \/ ~(IsDecimalDigit(chars[1]) \/ chars[1] = "-")
        THEN none
        ELSE LET minus == chars[1] = "-"
                 i == IF minus THEN 2 ELSE 1
                 sign == IF minus THEN <<"-">> ELSE <<>>
             IN  IF minus /\ ~(Len(chars) >= 2 /\ IsDecimalDigit(chars[2]))
                 THEN none
                 ELSE IF chars[i] = "0" /\ Len(chars) > i
                         /\ chars[i + 1] \in {"x", "X"}
                 THEN IF ~(Len(chars) > i + 1 /\ IsHexDigit(chars[i + 2]))
                      THEN [matched |-> FALSE, error |-> TRUE, value |-> <<>>]
                      ELSE [matched |-> TRUE, error |-> FALSE,
                            value |-> sign \o <<chars[i], chars[i + 1]>>
                                      \o TakeWhile(chars, i + 2, HexDigits)]
                 ELSE [matched |-> TRUE, error |-> FALSE,
                       value |-> sign \o TakeWhile(chars, i, DecimalDigits)]

\* the token of one item: _try_symbol, _try_number,
\* _try_identifier_or_keyword
TokenOf(item) ==
    IF item[1] = "" THEN Token("NUMBER", "", TryNumber(item[2]).value)
    ELSE IF item[1] \in SYMBOLS THEN Token("SYMBOL", item[1], <<>>)
    ELSE IF item[1] \in KEYWORDS THEN Token("KEYWORD", item[1], <<>>)
    ELSE Token("IDENTIFIER", item[1], <<>>)

\* an item at which tokenize raises XdrLexerError
LexerRaises(item) == item[1] = "" /\ ~TryNumber(item[2]).matched

\* XdrLexer.tokenize: the tokens of the items and the EOF token
TokenizeItems(items) ==
    [i \in 1..Len(items) |-> TokenOf(items[i])] \o <<Token("EOF", "", <<>>)>>

(***************************************************************************)
(* XdrParser                                                               *)
(*                                                                         *)
(* A parsing method is an operator on a parse state: the parser's pos,    *)
(* the XdrFile under construction, the value the method returns (val)     *)
(* and the type of the exception that left it (exc, "" for none).  Once   *)
(* exc is set every later method returns the state as it is.  An          *)
(* Optional[int] or Optional[str] attribute is the empty set for None.    *)
(***************************************************************************)
EmptyXdrFile ==
    [namespace |-> "", constants |-> <<>>, typedefs |-> <<>>, enums |-> <<>>,
     structs |-> <<>>, unions |-> <<>>]

ParseState(p, f) == [pos |-> p, exc |-> "", val |-> "", file |-> f]

Raise(st, exception) == [st EXCEPT !.exc = exception]
Return(st, value) == IF st.exc # "" THEN st ELSE [st EXCEPT !.val = value]

\* XdrParser._current
Current(p) == IF p < Len(tokens) THEN tokens[p + 1] ELSE tokens[Len(tokens)]

\* the position after XdrParser._advance
AdvancePos(p) == IF p < Len(tokens) - 1 THEN p + 1 ELSE p

Advance(st) == IF st.exc # "" THEN st ELSE [st EXCEPT !.pos = AdvancePos(st.pos)]

\* XdrParser._at_end
AtEnd(p) == Current(p).type = "EOF"

\* XdrParser._check_keyword
CheckKeyword(p, keyword) ==
    Current(p).type = "KEYWORD" /\ Current(p).value = keyword

\* XdrParser._check_symbol
CheckSymbol(p, symbol) ==
    Current(p).type = "SYMBOL" /\ Current(p).value = symbol

\* XdrParser._consume_keyword
ConsumeKeyword(st, keyword) ==
    IF st.exc # "" THEN st
    ELSE IF ~CheckKeyword(st.pos, keyword) THEN Raise(st, "XdrParseError")
    ELSE Return(Advance(st), keyword)

\* XdrParser._consume_symbol
ConsumeSymbol(st, symbol) ==
    IF st.exc # "" THEN st
    ELSE IF ~CheckSymbol(st.pos, symbol) THEN Raise(st, "XdrParseError")
    ELSE Return(Advance(st), symbol)

\* XdrParser._consume_identifier
ConsumeIdentifier(st) ==
    IF st.exc # "" THEN st
    ELSE IF Current(st.pos).type # "IDENTIFIER" THEN Raise(st, "XdrParseError")
    ELSE Return(Advance(st), Current(st.pos).value)

DigitValue(c) ==
    CASE c = "0" -> 0 [] c = "1" -> 1 [] c = "2" -> 2 [] c = "3" -> 3
      [] c = "4" -> 4 [] c = "5" -> 5 [] c = "6" -> 6 [] c = "7" -> 7
      [] c = "8" -> 8 [] c = "9" -> 9
      [] c \in {"a", "A"} -> 10 [] c \in {"b", "B"} -> 11
      [] c \in {"c", "C"} -> 12 [] c \in {"d", "D"} -> 13
      [] c \in {"e", "E"} -> 14 [] c \in {"f", "F"} -> 15

\* the number written by digits in the given base
RECURSIVE DigitsValue(_, _)
DigitsValue(digits, base) ==
    IF digits = <<>> THEN 0
    ELSE DigitsValue(SubSeq(digits, 1, Len(digits) - 1), base) * base
         + DigitValue(digits[Len(digits)])

StartsWith0x(text) == Len(text) >= 2 /\ text[1] = "0" /\ text[2] \in {"x", "X"}

Unsigned(text) == IF text # <<>> /\ text[1] = "-" THEN Tail(text) ELSE text

\* int(value_str) accepts an optional sign and decimal digits
IsDecimalText(text) ==
    /\ Unsigned(text) # <<>>
    /\ \A i \in 1..Len(Unsigned(text)) : Unsigned(text)[i] \in DecimalDigits

\* int(value_str)
IntOfDecimal(text) ==
    IF text[1] = "-" THEN 0 - DigitsValue(Tail(text), 10)
    ELSE DigitsValue(text, 10)

\* XdrParser._parse_number
ParseNumber(st) ==
    IF st.exc # "" THEN st
    ELSE IF Current(st.pos).type # "NUMBER" THEN Raise(st, "XdrParseError")
    ELSE LET value_str == Current(st.pos).text
         IN  IF StartsWith0x(value_str)
             THEN Return(Advance(st), DigitsValue(SubSeq(value_str, 3, Len(value_str)), 16))
             ELSE IF IsDecimalText(value_str)
             THEN Return(Advance(st), IntOfDecimal(value_str))
             ELSE Raise(Advance(st), "ValueError")

\* XdrParser._parse_type
ParseType(st) ==
    IF st.exc # "" THEN st
    ELSE IF CheckKeyword(st.pos, "unsigned")
    THEN IF CheckKeyword(AdvancePos(st.pos), "int")
         THEN Return(Advance(Advance(st)), "uint32")
         ELSE IF CheckKeyword(AdvancePos(st.pos), "hyper")
         THEN Return(Advance(Advance(st)), "uint64")
         ELSE Raise(Advance(st), "XdrParseError")
    ELSE IF CheckKeyword(st.pos, "int") THEN Return(Advance(st), "int32")
    ELSE IF CheckKeyword(st.pos, "hyper") THEN Return(Advance(st), "int64")
    ELSE IF CheckKeyword(st.pos, "string") THEN Return(Advance(st), "string")
    ELSE IF CheckKeyword(st.pos, "opaque") THEN Return(Advance(st), "opaque")
    ELSE IF CheckKeyword(st.pos, "bool") THEN Return(Advance(st), "bool")
    ELSE ConsumeIdentifier(st)

\* A value that a method uses more than once is the parameter of the
\* operator of the method's next lines.

NoSize == [size |-> {}, size_ref |-> {}]

\* "size = self._parse_number()"
SizeOfNumber(number) == Return(number, [size |-> {number.val}, size_ref |-> {}])

\* "size_ref = self._consume_identifier()"
SizeOfIdentifier(identifier) ==
    Return(identifier, [size |-> {}, size_ref |-> {identifier.val}])

\* "if self._current().type == 'NUMBER': parse_number else consume_identifier":
\* val is the pair of the Optional[int] and the Optional[str]
ParseSize(st) ==
    IF st.exc # "" THEN st
    ELSE IF Current(st.pos).type = "NUMBER" THEN SizeOfNumber(ParseNumber(st))
    ELSE SizeOfIdentifier(ConsumeIdentifier(st))

\* the size between "<" and ">", None for "<>"
ParseOptionalSize(st) ==
    IF st.exc # "" THEN st
    ELSE IF CheckSymbol(st.pos, ">") THEN Return(st, NoSize)
    ELSE ParseSize(st)

\* the test "type_name == 'string'" of _parse_field, and the test left out
IsStringTypeNever(type_name) == FALSE
IsStringType(type_name) == type_name = "string"

\* the attributes of a field without array specifier
NoArray ==
    [is_variable_array |-> FALSE, is_fixed_array |-> FALSE, array_size |-> {},
     array_size_ref |-> {}, max_length |-> {}]

\* XdrField; inline is "struct" when inline_struct is set, "union" when
\* inline_union is set and "" when both are None
XdrField(name, type_name, is_optional, array, inline) ==
    [name |-> name, type_name |-> type_name, is_optional |-> is_optional,
     is_variable_array |-> array.is_variable_array,
     is_fixed_array |-> array.is_fixed_array,
     array_size |-> array.array_size,
     array_size_ref |-> array.array_size_ref,
     max_length |-> array.max_length, inline |-> inline]

\* the fixed array "[N]" of _parse_field after its size
FixedArray(size) ==
    Return(ConsumeSymbol(size, "]"),
           [is_variable_array |-> FALSE, is_fixed_array |-> TRUE,
            array_size |-> size.val.size,
            array_size_ref |-> size.val.size_ref, max_length |-> {}])

\* the "<N>" of _parse_field after its size: string<N> is not an array
VariableArray(size, type_name) ==
    IF IsStringType(type_name)
    THEN Return(ConsumeSymbol(size, ">"),
                [is_variable_array |-> FALSE, is_fixed_array |-> FALSE,
                 array_size |-> {}, array_size_ref |-> size.val.size_ref,
                 max_length |-> size.val.size])
    ELSE Return(ConsumeSymbol(size, ">"),
                [is_variable_array |-> TRUE, is_fixed_array |-> FALSE,
                 array_size |-> size.val.size,
                 array_size_ref |-> size.val.size_ref, max_length |-> {}])

\* the array specifiers of _parse_field; val is the field's attributes
ParseArraySpecifiers(st, type_name) ==
    IF st.exc # "" THEN st
    ELSE IF CheckSymbol(st.pos, "[") THEN FixedArray(ParseSize(Advance(st)))
    ELSE IF CheckSymbol(st.pos, "<")
    THEN VariableArray(ParseOptionalSize(Advance(st)), type_name)
    ELSE Return(st, NoArray)

XdrStruct(name, fields) == [name |-> name, fields |-> fields]

XdrUnionCase(case_values, field, is_default) ==
    [case_values |-> case_values, field |-> field, is_default |-> is_default]

XdrUnion(name, discriminant_name, discriminant_type, cases) ==
    [name |-> name, discriminant_name |-> discriminant_name,
     discriminant_type |-> discriminant_type, cases |-> cases]

\* field_name[0].upper() + field_name[1:] on the field names of the model
PascalCase(field_name) ==
    CASE field_name = "ext"    -> "Ext"
      [] field_name = "v"      -> "V"
      [] field_name = "body"   -> "Body"
      [] field_name = "inner"  -> "Inner"
      [] field_name = "name"   -> "Name"
      [] field_name = "hashes" -> "Hashes"
      [] OTHER                 -> field_name

\* the loop "while brace_count > 0 and not self._at_end()" of the peek
RECURSIVE SkipToClose(_, _)
SkipToClose(p, brace_count) ==
    IF brace_count > 0 /\ ~AtEnd(p)
    THEN SkipToClose(AdvancePos(p),
                     IF CheckSymbol(p, "{") THEN brace_count + 1
                     ELSE IF CheckSymbol(p, "}") THEN brace_count - 1
                     ELSE brace_count)
    ELSE p

\* "if self._check_symbol('*'): is_optional = True; self._advance()"
IsOptional(type) == type.exc = "" /\ CheckSymbol(type.pos, "*")
SkipOptional(type) == IF IsOptional(type) THEN Advance(type) ELSE type

\* the discriminant type: the keyword int or an identifier
ParseDiscriminantType(st) ==
    IF st.exc # "" THEN st
    ELSE IF CheckKeyword(st.pos, "int") THEN Return(Advance(st), "int")
    ELSE ConsumeIdentifier(st)

DiscriminantEnd(discriminant_type, name) ==
    Return(ConsumeSymbol(ConsumeSymbol(name, ")"), "{"),
           [discriminant_type |-> discriminant_type,
            discriminant_name |-> name.val])

DiscriminantName(type) == DiscriminantEnd(type.val, ConsumeIdentifier(type))

\* the discriminant "(Type name) {" of a union; val is the pair of them
ParseDiscriminant(st) ==
    DiscriminantName(ParseDiscriminantType(ConsumeSymbol(st, "(")))

\* the names of _parse_inline_struct_field and _parse_anonymous_union_field
InlineName(parent_name, field_name, fallback) ==
    IF parent_name # "" THEN parent_name \o PascalCase(field_name)
    ELSE fallback \o field_name

\* the peek: the identifier after the closing brace
PeekFieldName(open) ==
    ConsumeIdentifier([open EXCEPT !.pos = SkipToClose(open.pos, 1)])

\* "}" field_name ";"
ConsumeInlineEnd(st) ==
    ConsumeSymbol(ConsumeIdentifier(ConsumeSymbol(st, "}")), ";")

\* XdrParser._register_inline_struct
RegisterInlineStruct(st, struct) ==
    IF st.exc # "" THEN st
    ELSE [st EXCEPT !.file.structs = Append(@, struct)]

\* XdrParser._register_inline_union
RegisterInlineUnion(st, union) ==
    IF st.exc # "" THEN st
    ELSE [st EXCEPT !.file.unions = Append(@, union)]

RECURSIVE ParseField(_, _)
RECURSIVE ParseFieldList(_, _, _)
RECURSIVE FieldListNext(_, _, _)
RECURSIVE ParseCaseLabels(_, _, _)
RECURSIVE CaseLabelNext(_, _, _)
RECURSIVE ParseUnionCase(_, _)
RECURSIVE UnionCaseField(_, _)
RECURSIVE ParseUnionCaseList(_, _, _)
RECURSIVE UnionCaseListNext(_, _, _)
RECURSIVE ParseInlineStructField(_, _)
RECURSIVE InlineStructPeek(_, _)
RECURSIVE InlineStructFields(_, _, _)
RECURSIVE ParseAnonymousUnionField(_, _)
RECURSIVE AnonymousUnionPeek(_, _)
RECURSIVE AnonymousUnionCases(_, _, _)

\* the return of _parse_field
FieldEnd(type_name, is_optional, field_name, array) ==
    Return(ConsumeSymbol(array, ";"),
           XdrField(field_name, type_name, is_optional, array.val, ""))

FieldArray(type_name, is_optional, name) ==
    FieldEnd(type_name, is_optional, name.val,
             ParseArraySpecifiers(name, type_name))

FieldName(type) ==
    FieldArray(type.val, IsOptional(type),
               ConsumeIdentifier(SkipOptional(type)))

\* XdrParser._parse_field
ParseField(st, parent_struct_name) ==
    IF st.exc # "" THEN st
    ELSE IF CheckKeyword(st.pos, "union")
    THEN ParseAnonymousUnionField(st, parent_struct_name)
    ELSE FieldName(ParseType(st))

\* the loop "while not self._check_symbol('}'): fields.append(...)"
ParseFieldList(st, parent_struct_name, fields) ==
    IF st.exc # "" THEN st
    ELSE IF CheckSymbol(st.pos, "}") THEN Return(st, fields)
    ELSE FieldListNext(ParseField(st, parent_struct_name),
                       parent_struct_name, fields)

FieldListNext(field, parent_struct_name, fields) ==
    IF field.exc # "" THEN field
    ELSE ParseFieldList(field, parent_struct_name, Append(fields, field.val))

\* "case_values.append(str(self._parse_number()))"
NumberLabel(number) == Return(number, ToString(number.val))

CaseLabelValue(case) ==
    IF case.exc # "" THEN case
    ELSE IF Current(case.pos).type = "NUMBER"
    THEN NumberLabel(ParseNumber(case))
    ELSE ConsumeIdentifier(case)

\* the loop that collects the case labels of _parse_union_case
ParseCaseLabels(st, case_values, is_default) ==
    IF st.exc # "" THEN st
    ELSE IF CheckKeyword(st.pos, "default")
    THEN ParseCaseLabels(ConsumeSymbol(Advance(st), ":"),
                         Append(case_values, "default"), TRUE)
    ELSE IF CheckKeyword(st.pos, "case")
    THEN CaseLabelNext(CaseLabelValue(ConsumeKeyword(st, "case")),
                       case_values, is_default)
    ELSE Return(st, [case_values |-> case_values, is_default |-> is_default])

CaseLabelNext(value, case_values, is_default) ==
    IF value.exc # "" THEN value
    ELSE ParseCaseLabels(ConsumeSymbol(value, ":"),
                         Append(case_values, value.val), is_default)

\* the return of _parse_union_case with "field = None"
VoidCase(labels, st) ==
    Return(st, XdrUnionCase(labels.case_values, {}, labels.is_default))

\* the return of _parse_union_case with a field
FieldCase(labels, field) ==
    Return(field, XdrUnionCase(labels.case_values, {field.val},
                               labels.is_default))

\* XdrParser._parse_union_case
ParseUnionCase(st, parent_union_name) ==
    UnionCaseField(ParseCaseLabels(st, <<>>, FALSE), parent_union_name)

UnionCaseField(labels, parent_union_name) ==
    IF labels.exc # "" THEN labels
    ELSE IF CheckKeyword(labels.pos, "void")
    THEN VoidCase(labels.val, ConsumeSymbol(Advance(labels), ";"))
    ELSE IF CheckKeyword(labels.pos, "struct")
    THEN FieldCase(labels.val,
                   ParseInlineStructField(labels, parent_union_name))
    ELSE FieldCase(labels.val, ParseField(labels, parent_union_name))

\* the loop "while not self._check_symbol('}'): cases.append(...)"
ParseUnionCaseList(st, parent_union_name, cases) ==
    IF st.exc # "" THEN st
    ELSE IF CheckSymbol(st.pos, "}") THEN Return(st, cases)
    ELSE UnionCaseListNext(ParseUnionCase(st, parent_union_name),
                           parent_union_name, cases)

UnionCaseListNext(case, parent_union_name, cases) ==
    IF case.exc # "" THEN case
    ELSE ParseUnionCaseList(case, parent_union_name, Append(cases, case.val))

\* the end of _parse_inline_struct_field: the synthetic struct is
\* registered and the field returned
InlineStructEnd(field_name, struct_name, inline_fields) ==
    Return(RegisterInlineStruct(ConsumeInlineEnd(inline_fields),
                                XdrStruct(struct_name, inline_fields.val)),
           XdrField(field_name, struct_name, FALSE, NoArray, "struct"))

\* XdrParser._parse_inline_struct_field
ParseInlineStructField(st, parent_union_name) ==
    InlineStructPeek(ConsumeSymbol(ConsumeKeyword(st, "struct"), "{"),
                     parent_union_name)

InlineStructPeek(open, parent_union_name) ==
    IF open.exc # "" THEN open
    ELSE InlineStructFields(open.pos, PeekFieldName(open), parent_union_name)

InlineStructFields(saved_pos, peek, parent_union_name) ==
    IF peek.exc # "" THEN peek
    ELSE InlineStructEnd(
             peek.val,
             InlineName(parent_union_name, peek.val, "__anon_struct_"),
             ParseFieldList(
                 [peek EXCEPT !.pos = saved_pos],
                 InlineName(parent_union_name, peek.val, "__anon_struct_"),
                 <<>>))

\* the end of _parse_anonymous_union_field: the synthetic union is
\* registered and the field returned
AnonymousUnionEnd(field_name, union_name, discriminant, cases) ==
    Return(RegisterInlineUnion(
               ConsumeInlineEnd(cases),
               XdrUnion(union_name, discriminant.discriminant_name,
                        discriminant.discriminant_type, cases.val)),
           XdrField(field_name, union_name, FALSE, NoArray, "union"))

\* XdrParser._parse_anonymous_union_field
ParseAnonymousUnionField(st, parent_struct_name) ==
    AnonymousUnionPeek(
        ParseDiscriminant(
            ConsumeKeyword(ConsumeKeyword(st, "union"), "switch")),
        parent_struct_name)

AnonymousUnionPeek(open, parent_struct_name) ==
    IF open.exc # "" THEN open
    ELSE AnonymousUnionCases(open, PeekFieldName(open), parent_struct_name)

AnonymousUnionCases(open, peek, parent_struct_name) ==
    IF peek.exc # "" THEN peek
    ELSE AnonymousUnionEnd(
             peek.val,
             InlineName(parent_struct_name, peek.val, "__anon_union_"),
             open.val,
             ParseUnionCaseList(
                 [peek EXCEPT !.pos = open.pos],
                 InlineName(parent_struct_name, peek.val, "__anon_union_"),
                 <<>>))

XdrConstant(name, value) == [name |-> name, value |-> value]

XdrEnumValue(name, value, value_ref) ==
    [name |-> name, value |-> value, value_ref |-> value_ref]

XdrEnum(name, values) == [name |-> name, values |-> values]

XdrTypedef(name, underlying_type, is_opaque, is_string, size, size_ref,
           is_variable, is_fixed) ==
    [name |-> name, underlying_type |-> underlying_type,
     is_opaque |-> is_opaque, is_string |-> is_string, size |-> size,
     size_ref |-> size_ref, is_variable |-> is_variable,
     is_fixed |-> is_fixed]

NamespaceEnd(name) == Return(ConsumeSymbol(name, "{"), name.val)

\* XdrParser._parse_namespace
ParseNamespace(st) ==
    NamespaceEnd(ConsumeIdentifier(ConsumeKeyword(st, "namespace")))

ConstEnd(name, value) ==
    Return(ConsumeSymbol(value, ";"), XdrConstant(name, value.val))

ConstValue(name) == ConstEnd(name.val, ParseNumber(ConsumeSymbol(name, "=")))

\* XdrParser._parse_const
ParseConst(st) == ConstValue(ConsumeIdentifier(ConsumeKeyword(st, "const")))

\* the underlying type of _parse_typedef
ParseUnderlyingType(st) ==
    IF st.exc # "" THEN st
    ELSE IF CheckKeyword(st.pos, "opaque") THEN Return(Advance(st), "opaque")
    ELSE IF CheckKeyword(st.pos, "string") THEN Return(Advance(st), "string")
    ELSE IF CheckKeyword(st.pos, "unsigned")
    THEN IF CheckKeyword(AdvancePos(st.pos), "int")
         THEN Return(Advance(Advance(st)), "uint32")
         ELSE IF CheckKeyword(AdvancePos(st.pos), "hyper")
         THEN Return(Advance(Advance(st)), "uint64")
         ELSE Raise(Advance(st), "XdrParseError")
    ELSE IF CheckKeyword(st.pos, "int") THEN Return(Advance(st), "int32")
    ELSE IF CheckKeyword(st.pos, "hyper") THEN Return(Advance(st), "int64")
    ELSE ConsumeIdentifier(st)

\* the "[N]" of _parse_typedef after its size
TypedefFixed(size) ==
    Return(ConsumeSymbol(size, "]"),
           [size |-> size.val.size, size_ref |-> size.val.size_ref,
            is_variable |-> FALSE, is_fixed |-> TRUE])

\* the "<N>" or "<>" of _parse_typedef after its size
TypedefVariable(size) ==
    Return(ConsumeSymbol(size, ">"),
           [size |-> size.val.size, size_ref |-> size.val.size_ref,
            is_variable |-> TRUE, is_fixed |-> FALSE])

\* the size specifiers of _parse_typedef
ParseTypedefSize(st) ==
    IF st.exc # "" THEN st
    ELSE IF CheckSymbol(st.pos, "[") THEN TypedefFixed(ParseSize(Advance(st)))
    ELSE IF CheckSymbol(st.pos, "<")
    THEN TypedefVariable(ParseOptionalSize(Advance(st)))
    ELSE Return(st, [size |-> {}, size_ref |-> {}, is_variable |-> FALSE,
                     is_fixed |-> FALSE])

\* the return of _parse_typedef
TypedefEnd(name, underlying_type, is_opaque, is_string, size) ==
    Return(ConsumeSymbol(size, ";"),
           XdrTypedef(name, underlying_type, is_opaque, is_string,
                      size.val.size, size.val.size_ref, size.val.is_variable,
                      size.val.is_fixed))

TypedefSize(underlying_type, is_opaque, is_string, name) ==
    TypedefEnd(name.val, underlying_type, is_opaque, is_string,
               ParseTypedefSize(name))

\* "if is_optional: underlying_type = f'{underlying_type}*'"
TypedefName(is_opaque, is_string, type) ==
    TypedefSize(IF IsOptional(type) THEN type.val \o "*" ELSE type.val,
                is_opaque, is_string, ConsumeIdentifier(SkipOptional(type)))

TypedefType(keyword) ==
    TypedefName(keyword.exc = "" /\ CheckKeyword(keyword.pos, "opaque"),
                keyword.exc = "" /\ CheckKeyword(keyword.pos, "string"),
                ParseUnderlyingType(keyword))

\* XdrParser._parse_typedef
ParseTypedef(st) == TypedefType(ConsumeKeyword(st, "typedef"))

\* "if self._check_symbol(','): self._advance()"
SkipComma(st) ==
    IF st.exc = "" /\ CheckSymbol(st.pos, ",") THEN Advance(st) ELSE st

RECURSIVE ParseEnumValues(_, _)
RECURSIVE EnumValueNext(_, _, _)

EnumValue(value_name, values) ==
    EnumValueNext(value_name.val, ParseSize(ConsumeSymbol(value_name, "=")),
                  values)

\* the loop over the values of _parse_enum
ParseEnumValues(st, values) ==
    IF st.exc # "" THEN st
    ELSE IF CheckSymbol(st.pos, "}") THEN Return(st, values)
    ELSE EnumValue(ConsumeIdentifier(st), values)

EnumValueNext(value_name, value, values) ==
    IF value.exc # "" THEN value
    ELSE ParseEnumValues(SkipComma(value),
                         Append(values, XdrEnumValue(value_name,
                                                     value.val.size,
                                                     value.val.size_ref)))

EnumEnd(name, values) ==
    Return(ConsumeSymbol(ConsumeSymbol(values, "}"), ";"),
           XdrEnum(name, values.val))

EnumName(name) ==
    EnumEnd(name.val, ParseEnumValues(ConsumeSymbol(name, "{"), <<>>))

\* XdrParser._parse_enum
ParseEnum(st) == EnumName(ConsumeIdentifier(ConsumeKeyword(st, "enum")))

StructEnd(name, fields) ==
    Return(ConsumeSymbol(ConsumeSymbol(fields, "}"), ";"),
           XdrStruct(name, fields.val))

StructName(name) ==
    IF name.exc # "" THEN name
    ELSE StructEnd(name.val,
                   ParseFieldList(ConsumeSymbol(name, "{"), name.val, <<>>))

\* XdrParser._parse_struct
ParseStruct(st) == StructName(ConsumeIdentifier(ConsumeKeyword(st, "struct")))

UnionEnd(name, discriminant, cases) ==
    Return(ConsumeSymbol(ConsumeSymbol(cases, "}"), ";"),
           XdrUnion(name, discriminant.discriminant_name,
                    discriminant.discriminant_type, cases.val))

UnionCases(name, open) ==
    IF open.exc # "" THEN open
    ELSE UnionEnd(name, open.val, ParseUnionCaseList(open, name, <<>>))

UnionSwitch(name) ==
    UnionCases(name.val, ParseDiscriminant(ConsumeKeyword(name, "switch")))

\* 'name = ""; if self._current().type == "IDENTIFIER": name = ...'
UnionName(keyword) ==
    IF keyword.exc = "" /\ Current(keyword.pos).type = "IDENTIFIER"
    THEN ConsumeIdentifier(keyword)
    ELSE Return(keyword, "")

\* XdrParser._parse_union
ParseUnion(st) == UnionSwitch(UnionName(ConsumeKeyword(st, "union")))

(***************************************************************************)
(* XdrLexer.tokenize and XdrParser.parse as steps                          *)
(***************************************************************************)
\* tokens = XdrLexer(source).tokenize()
Tokenize ==
    /\ parse_pc = "source"
    /\ IF \E i \in 1..Len(source) : LexerRaises(source[i])
       THEN /\ parse_pc' = "lexer_raised"
            /\ parse_exc' = "XdrLexerError"
            /\ UNCHANGED tokens
       ELSE /\ tokens' = TokenizeItems(source)
            /\ parse_pc' = "start"
            /\ UNCHANGED parse_exc
    /\ UNCHANGED <<idl, source, tok_pos, xdr_file>>
    /\ UNCHANGED <<scanVars, runVars, resolverVars>>
    /\ UNCHANGED <<resolveVars, lexerVars, fetchVars, insertVars>>

\* the parser's step from the parse state st that a parsing method left
ParserStep(st, next_pc) ==
    /\ tok_pos' = st.pos
    /\ xdr_file' = st.file
    /\ parse_exc' = st.exc
    /\ parse_pc' = IF st.exc # "" THEN "raised" ELSE next_pc
    /\ UNCHANGED <<idl, source, tokens>>
    /\ UNCHANGED <<scanVars, runVars, resolverVars>>
    /\ UNCHANGED <<resolveVars, lexerVars, fetchVars, insertVars>>

\* "xdr_file.namespace = self._parse_namespace()"
SetNamespace(namespace) ==
    IF namespace.exc # "" THEN namespace
    ELSE [namespace EXCEPT !.file.namespace = namespace.val]

\* parse up to the loop: the XdrFile and the optional namespace
ParseBegin ==
    /\ parse_pc = "start"
    /\ IF CheckKeyword(0, "namespace")
       THEN ParserStep(SetNamespace(ParseNamespace(ParseState(0, EmptyXdrFile))),
                       "loop")
       ELSE ParserStep(ParseState(0, EmptyXdrFile), "loop")

\* "while not self._at_end()" is left, "return xdr_file"
ParseReturn ==
    /\ parse_pc = "loop"
    /\ AtEnd(tok_pos)
    /\ ParserStep(ParseState(tok_pos, xdr_file), "returned")

\* "if self._check_symbol(';'): self._advance(); continue"
ParseSkipSemicolon ==
    /\ parse_pc = "loop"
    /\ ~AtEnd(tok_pos)
    /\ CheckSymbol(tok_pos, ";")
    /\ ParserStep(Advance(ParseState(tok_pos, xdr_file)), "loop")

\* "xdr_file.<collection>.append(<definition>)"
AppendDefinition(definition, collection) ==
    IF definition.exc # "" THEN definition
    ELSE [definition EXCEPT !.file[collection] = Append(@, definition.val)]

\* xdr_file.constants.append(self._parse_const())
ParseAppendConstant ==
    /\ parse_pc = "loop"
    /\ CheckKeyword(tok_pos, "const")
    /\ ParserStep(AppendDefinition(ParseConst(ParseState(tok_pos, xdr_file)),
                                   "constants"),
                  "loop")

\* xdr_file.typedefs.append(self._parse_typedef())
ParseAppendTypedef ==
    /\ parse_pc = "loop"
    /\ CheckKeyword(tok_pos, "typedef")
    /\ ParserStep(AppendDefinition(ParseTypedef(ParseState(tok_pos, xdr_file)),
                                   "typedefs"),
                  "loop")

\* xdr_file.enums.append(self._parse_enum())
ParseAppendEnum ==
    /\ parse_pc = "loop"
    /\ CheckKeyword(tok_pos, "enum")
    /\ ParserStep(AppendDefinition(ParseEnum(ParseState(tok_pos, xdr_file)),
                                   "enums"),
                  "loop")

\* xdr_file.structs.append(self._parse_struct())
ParseAppendStruct ==
    /\ parse_pc = "loop"
    /\ CheckKeyword(tok_pos, "struct")
    /\ ParserStep(AppendDefinition(ParseStruct(ParseState(tok_pos, xdr_file)),
                                   "structs"),
                  "loop")

\* xdr_file.unions.append(self._parse_union())
ParseAppendUnion ==
    /\ parse_pc = "loop"
    /\ CheckKeyword(tok_pos, "union")
    /\ ParserStep(AppendDefinition(ParseUnion(ParseState(tok_pos, xdr_file)),
                                   "unions"),
                  "loop")

\* "if self._check_symbol(';'): self._advance()" after the closing brace
SkipSemicolon(st) ==
    IF st.exc = "" /\ CheckSymbol(st.pos, ";") THEN Advance(st) ELSE st

\* "elif self._check_symbol('}')": the end of the namespace, "break"
ParseNamespaceEnd ==
    /\ parse_pc = "loop"
    /\ CheckSymbol(tok_pos, "}")
    /\ ParserStep(SkipSemicolon(ConsumeSymbol(ParseState(tok_pos, xdr_file),
                                              "}")),
                  "returned")

\* "else: raise XdrParseError(... Unexpected token ...)"
ParseUnexpectedToken ==
    /\ parse_pc = "loop"
    /\ ~AtEnd(tok_pos)
    /\ ~CheckSymbol(tok_pos, ";")
    /\ ~CheckSymbol(tok_pos, "}")
    /\ \A keyword \in {"const", "typedef", "enum", "struct", "union"} :
           ~CheckKeyword(tok_pos, keyword)
    /\ ParserStep(Raise(ParseState(tok_pos, xdr_file), "XdrParseError"),
                  "loop")

(***************************************************************************)
(* IDL texts.  A text is a sequence of items, each a word (symbol,        *)
(* keyword or identifier) or a numeric literal that the lexer reads       *)
(* whole, separated by white space.  A definition of the pool comes with  *)
(* what the text declares: the kind and name of the named definition,     *)
(* its inline declarations, its sized fields, and whether it is a valid   *)
(* definition of the language.                                            *)
(***************************************************************************)
MaxDefinitions == 2

Words(ws) == [i \in 1..Len(ws) |-> Word(ws[i])]

Sixteen == <<Literal(<<"1", "6">>)>>
Zero == <<Literal(<<"0">>)>>
One == <<Literal(<<"1">>)>>
MinusOne == <<Literal(<<"-", "1">>)>>
HexSixteen == <<Literal(<<"0", "x", "1", "0">>)>>
MinusHexSixteen == <<Literal(<<"-", "0", "x", "1", "0">>)>>
HexNoDigit == <<Literal(<<"0", "x">>)>>

IdlDefinition(items, kind, name, inline, sized, valid) ==
    [items |-> items, kind |-> kind, name |-> name, inline |-> inline,
     sized |-> sized, valid |-> valid]

Inline(kind, enclosing, field) ==
    [kind |-> kind, enclosing |-> enclosing, field |-> field]

Sized(enclosing, field, is_string, n) ==
    [enclosing |-> enclosing, field |-> field, is_string |-> is_string,
     n |-> n]

\* union switch (int v) { case 0: void; } ext;
InlineUnionExt ==
    Words(<<"union", "switch", "(", "int", "v", ")", "{", "case">>) \o Zero
    \o Words(<<":", "void", ";", "}", "ext", ";">>)

\* struct { int v; } <field>;
InlineStruct(field) ==
    Words(<<"struct", "{", "int", "v", ";", "}", field, ";">>)

DefinitionPool ==
    << \* const A = 16;
       IdlDefinition(Words(<<"const", "A", "=">>) \o Sixteen \o Words(<<";">>),
                     "const", "A", {}, {}, TRUE),
       \* const B = -1;
       IdlDefinition(Words(<<"const", "B", "=">>) \o MinusOne \o Words(<<";">>),
                     "const", "B", {}, {}, TRUE),
       \* const C = 0x10;
       IdlDefinition(Words(<<"const", "C", "=">>) \o HexSixteen
                     \o Words(<<";">>),
                     "const", "C", {}, {}, TRUE),
       \* const D = -0x10;
       IdlDefinition(Words(<<"const", "D", "=">>) \o MinusHexSixteen
                     \o Words(<<";">>),
                     "const", "D", {}, {}, FALSE),
       \* const E = 0x;
       IdlDefinition(Words(<<"const", "E", "=">>) \o HexNoDigit
                     \o Words(<<";">>),
                     "const", "E", {}, {}, FALSE),
       \* typedef opaque Hash[16];
       IdlDefinition(Words(<<"typedef", "opaque", "Hash", "[">>) \o Sixteen
                     \o Words(<<"]", ";">>),
                     "typedef", "Hash", {}, {}, TRUE),
       \* typedef Asset* Opt;
       IdlDefinition(Words(<<"typedef", "Asset", "*", "Opt", ";">>),
                     "typedef", "Opt", {}, {}, TRUE),
       \* typedef unsigned hyper Str<>;
       IdlDefinition(Words(<<"typedef", "unsigned", "hyper", "Str", "<", ">",
                             ";">>),
                     "typedef", "Str", {}, {}, TRUE),
       \* enum Kind { X = 0, Y = A };
       IdlDefinition(Words(<<"enum", "Kind", "{", "X", "=">>) \o Zero
                     \o Words(<<",", "Y", "=", "A", "}", ";">>),
                     "enum", "Kind", {}, {}, TRUE),
       \* struct Foo { string name<16>; Hash hashes<16>; };
       IdlDefinition(Words(<<"struct", "Foo", "{", "string", "name", "<">>)
                     \o Sixteen
                     \o Words(<<">", ";", "Hash", "hashes", "<">>) \o Sixteen
                     \o Words(<<">", ";", "}", ";">>),
                     "struct", "Foo", {},
                     {Sized("Foo", "name", TRUE, 16),
                      Sized("Foo", "hashes", FALSE, 16)}, TRUE),
       \* struct Qux { Asset* a; unsigned int b[A]; string name<-1>; };
       IdlDefinition(Words(<<"struct", "Qux", "{", "Asset", "*", "a", ";",
                             "unsigned", "int", "b", "[", "A", "]", ";",
                             "string", "name", "<">>) \o MinusOne
                     \o Words(<<">", ";", "}", ";">>),
                     "struct", "Qux", {},
                     {Sized("Qux", "name", TRUE, 0 - 1)}, FALSE),
       \* struct Foo { union switch (int v) { case 0: void; } ext; };
       IdlDefinition(Words(<<"struct", "Foo", "{">>) \o InlineUnionExt
                     \o Words(<<"}", ";">>),
                     "struct", "Foo", {Inline("union", "Foo", "ext")}, {},
                     TRUE),
       \* union FooExt switch (Kind v) { case X: case 1: int code; default: void; };
       IdlDefinition(Words(<<"union", "FooExt", "switch", "(", "Kind", "v",
                             ")", "{", "case", "X", ":", "case">>) \o One
                     \o Words(<<":", "int", "code", ";", "default", ":",
                                "void", ";", "}", ";">>),
                     "union", "FooExt", {}, {}, TRUE),
       \* struct Bar { struct { int v; } inner; };
       IdlDefinition(Words(<<"struct", "Bar", "{">>) \o InlineStruct("inner")
                     \o Words(<<"}", ";">>),
                     "struct", "Bar", {Inline("struct", "Bar", "inner")}, {},
                     TRUE),
       \* union Memo switch (int v) {
       \* case 0: struct { int v; } body;
       \* case 1: union switch (int v) { case 0: void; } ext; };
       IdlDefinition(Words(<<"union", "Memo", "switch", "(", "int", "v", ")",
                             "{", "case">>) \o Zero \o Words(<<":">>)
                     \o InlineStruct("body") \o Words(<<"case">>) \o One
                     \o Words(<<":">>) \o InlineUnionExt \o Words(<<"}", ";">>),
                     "union", "Memo",
                     {Inline("struct", "Memo", "body"),
                      Inline("union", "Memo", "ext")}, {}, TRUE),
       \* struct Baz { union switch (int v) {
       \* case 0: struct { opaque hashes<0x10>; } body; } ext; };
       IdlDefinition(Words(<<"struct", "Baz", "{", "union", "switch", "(",
                             "int", "v", ")", "{", "case">>) \o Zero
                     \o Words(<<":", "struct", "{", "opaque", "hashes", "<">>)
                     \o HexSixteen
                     \o Words(<<">", ";", "}", "body", ";", "}", "ext", ";",
                                "}", ";">>),
                     "struct", "Baz",
                     {Inline("union", "Baz", "ext"),
                      Inline("struct", "BazExt", "body")},
                     {Sized("BazExt" \o "Body", "hashes", FALSE, 16)}, TRUE),
       \* struct Bad { int ; };
       IdlDefinition(Words(<<"struct", "Bad", "{", "int", ";", "}", ";">>),
                     "struct", "Bad", {}, {}, FALSE),
       \* union switch (int v) { case 0: void; };
       IdlDefinition(Words(<<"union", "switch", "(", "int", "v", ")", "{",
                             "case">>) \o Zero
                     \o Words(<<":", "void", ";", "}", ";">>),
                     "union", "", {}, {}, FALSE),
       \* Foo
       IdlDefinition(Words(<<"Foo">>), "", "", {}, {}, FALSE),
       \* ;
       IdlDefinition(Words(<<";">>), "", "", {}, {}, FALSE),
       \* }
       IdlDefinition(Words(<<"}">>), "", "", {}, {}, FALSE) >>

\* the lists of at most MaxDefinitions definitions of the pool
DefinitionLists ==
    UNION {[1..n -> 1..Len(DefinitionPool)] : n \in 0..MaxDefinitions}

\* namespace stellar { <items> }
InNamespace(items) ==
    Words(<<"namespace", "stellar", "{">>) \o items \o Words(<<"}">>)

\* what the text of the definitions with the indexes picks declares;
\* the text is valid when each definition is and no two of a kind share a
\* name
Idl(picks) ==
    [valid |-> /\ \A i \in 1..Len(picks) : DefinitionPool[picks[i]].valid
               /\ \A i, j \in 1..Len(picks) :
                      (/\ i # j
                       /\ DefinitionPool[picks[i]].kind
                              = DefinitionPool[picks[j]].kind)
                      => DefinitionPool[picks[i]].name
                             # DefinitionPool[picks[j]].name,
     inline |-> UNION {DefinitionPool[picks[i]].inline : i \in 1..Len(picks)},
     sized |-> UNION {DefinitionPool[picks[i]].sized : i \in 1..Len(picks)}]

IdlItems(picks) ==
    Concat([i \in 1..Len(picks) |-> DefinitionPool[picks[i]].items])

InitParse ==
    /\ ResolveIdle
    /\ LexerIdle
    /\ FetchIdle
    /\ InsertIdle
    /\ ScanIdle
    /\ RunIdle
    /\ ResolverIdle
    /\ \E picks \in DefinitionLists, namespace \in BOOLEAN :
           /\ idl = Idl(picks)
           /\ source = IF namespace THEN InNamespace(IdlItems(picks))
                       ELSE IdlItems(picks)
    /\ tokens = <<>>
    /\ tok_pos = 0
    /\ xdr_file = EmptyXdrFile
    /\ parse_pc = "source"
    /\ parse_exc = ""

NextParse ==
    \/ Tokenize
    \/ ParseBegin
    \/ ParseReturn
    \/ ParseSkipSemicolon
    \/ ParseAppendConstant
    \/ ParseAppendTypedef
    \/ ParseAppendEnum
    \/ ParseAppendStruct
    \/ ParseAppendUnion
    \/ ParseNamespaceEnd
    \/ ParseUnexpectedToken

SpecParse == InitParse /\ [][NextParse]_vars

(***************************************************************************)
(* Properties of the parser                                                *)
(***************************************************************************)
\* XdrField.is_array
IsArray(field) ==
    IF field.type_name = "string" THEN FALSE
    ELSE field.is_variable_array \/ field.is_fixed_array

Elements(seq) == {seq[i] : i \in 1..Len(seq)}

Names(collection) == [i \in 1..Len(collection) |-> collection[i].name]

NoDuplicates(names) ==
    \A i, j \in 1..Len(names) : i # j => names[i] # names[j]

\* the fields that the structs and the union cases of the name have in the
\* file
FieldsOf(file, name) ==
    UNION {Elements(struct.fields) :
               struct \in {s \in Elements(file.structs) : s.name = name}}
    \cup UNION {case.field :
                    case \in UNION {Elements(union.cases) :
                                        union \in {u \in Elements(file.unions) :
                                                       u.name = name}}}

ParseEnded == parse_pc \in {"returned", "raised"}

SynthesizedName(declaration) ==
    declaration.enclosing \o PascalCase(declaration.field)

\* C17: when the text is valid and parse has ended, it has succeeded, and
\* for every field of a struct or of a union case whose type is declared
\* inline as a struct or a union, the file's structs or unions hold a
\* definition named by the enclosing type's name followed by the field's
\* name with its first letter in upper case, and the field's type_name is
\* that name.
C17_InlineTypesSynthesized ==
    (ParseEnded /\ idl.valid)
    => \A declaration \in idl.inline :
           /\ parse_pc = "returned"
           /\ \E definition \in
                  Elements(IF declaration.kind = "struct"
                           THEN xdr_file.structs ELSE xdr_file.unions) :
                  definition.name = SynthesizedName(declaration)
           /\ \E field \in FieldsOf(xdr_file, declaration.enclosing) :
                  /\ field.name = declaration.field
                  /\ field.type_name = SynthesizedName(declaration)

Collections ==
    {"structs", "unions", "enums", "typedefs", "constants"}

\* C18: for a valid text tokenize and parse succeed, and in the file that
\* parse returns every definition of structs, unions, enums, typedefs and
\* constants has a non-empty name that no other definition of the same
\* collection has.
C18_NonEmptyUniqueNames ==
    idl.valid
    => /\ parse_pc \notin {"lexer_raised", "raised"}
       /\ parse_pc = "returned"
          => \A collection \in Collections :
                 /\ \A name \in Elements(Names(xdr_file[collection])) :
                        name # ""
                 /\ NoDuplicates(Names(xdr_file[collection]))

\* C19: a parse that fails on the tokens of tokenize raises XdrParseError
\* and no other exception.
C19_OnlyXdrParseError ==
    parse_pc = "raised" => parse_exc = "XdrParseError"

\* C20: a field declared "string name<N>;" is in the file with
\* max_length = N and not as an array, and a field declared "T name<N>;"
\* with another type T is in the file as a variable array with
\* array_size = N.
C20_StringMaxLength ==
    \A declaration \in idl.sized :
        \A field \in FieldsOf(xdr_file, declaration.enclosing) :
            field.name = declaration.field
            => IF declaration.is_string
               THEN /\ field.max_length = {declaration.n}
                    /\ ~field.is_variable_array
                    /\ ~field.is_fixed_array
                    /\ ~IsArray(field)
               ELSE /\ field.is_variable_array
                    /\ field.array_size = {declaration.n}

\* parse has returned a struct with a string field of max_length 16 and a
\* variable array of 16 Hash
C20_Witness ==
    /\ parse_pc = "returned"
    /\ idl.sized # {}
    /\ \E struct \in Elements(xdr_file.structs) :
           /\ \E field \in Elements(struct.fields) :
                  /\ field.type_name = "string"
                  /\ field.max_length = {16}
           /\ \E field \in Elements(struct.fields) :
                  /\ field.type_name = "Hash"
                  /\ field.is_variable_array
                  /\ field.array_size = {16}

(***************************************************************************)
(* XdrFile.resolve_references                                              *)
(*                                                                         *)
(* xdr_files is the list of parsed files; a file is named by its index,   *)
(* so that "xdr_file is self" is the equality of indexes.  The argument   *)
(* all_files is the empty set for None and the set of one list of         *)
(* indexes otherwise.                                                      *)
(***************************************************************************)
MaxEnumValues == 2
MaxResolves == 2

\* "for const in constants: symbol_table[const.name] = const.value"
RECURSIVE AddConstants(_, _)
AddConstants(symbol_table, constants) ==
    IF constants = <<>> THEN symbol_table
    ELSE AddConstants(Put(symbol_table, Head(constants).name,
                          Head(constants).value),
                      Tail(constants))

\* "if enum_val.value is not None: symbol_table[enum_val.name] = ...",
\* and a table that takes no enum value
AddEnumValueNever(symbol_table, enum_val) == symbol_table
AddEnumValue(symbol_table, enum_val) ==
    IF enum_val.value # {}
    THEN Put(symbol_table, enum_val.name, CHOOSE n \in enum_val.value : TRUE)
    ELSE symbol_table

\* "for enum_val in enum.values"
RECURSIVE AddEnumValues(_, _)
AddEnumValues(symbol_table, values) ==
    IF values = <<>> THEN symbol_table
    ELSE AddEnumValues(AddEnumValue(symbol_table, Head(values)), Tail(values))

\* "for enum in enums"
RECURSIVE AddEnums(_, _)
AddEnums(symbol_table, enums) ==
    IF enums = <<>> THEN symbol_table
    ELSE AddEnums(AddEnumValues(symbol_table, Head(enums).values),
                  Tail(enums))

\* the constants and the enum values of one file
AddSymbols(symbol_table, file) ==
    AddEnums(AddConstants(symbol_table, file.constants), file.enums)

\* "for xdr_file in all_files: if xdr_file is self: continue"
RECURSIVE AddOtherFiles(_, _, _, _)
AddOtherFiles(symbol_table, files, self, others) ==
    IF others = <<>> THEN symbol_table
    ELSE AddOtherFiles(IF Head(others) = self THEN symbol_table
                       ELSE AddSymbols(symbol_table, files[Head(others)]),
                       files, self, Tail(others))

\* the symbol table of resolve_references; "if all_files:" is false for
\* None and for the empty list
SymbolTable(files, self, all_files_arg) ==
    AddOtherFiles(AddSymbols(<<>>, files[self]), files, self,
                  IF all_files_arg = {} THEN <<>>
                  ELSE CHOOSE list \in all_files_arg : TRUE)

\* "if enum_val.value_ref is not None: if enum_val.value_ref in
\* symbol_table: enum_val.value = symbol_table[enum_val.value_ref]"
ResolveEnumValue(symbol_table, enum_val) ==
    IF /\ enum_val.value_ref # {}
       /\ enum_val.value_ref \subseteq DOMAIN symbol_table
    THEN [enum_val EXCEPT
              !.value = {symbol_table[CHOOSE r \in enum_val.value_ref : TRUE]}]
    ELSE enum_val

ResolveEnum(symbol_table, enum) ==
    [enum EXCEPT !.values = [i \in 1..Len(enum.values) |->
                                 ResolveEnumValue(symbol_table, enum.values[i])]]

\* the enums of the file after the resolution loop
ResolvedEnums(symbol_table, enums) ==
    [i \in 1..Len(enums) |-> ResolveEnum(symbol_table, enums[i])]

\* xdr_files[self].resolve_references(all_files): it returns None and
\* reports nothing
ResolveReferences(self, all_files_arg) ==
    /\ Len(resolve_log) < MaxResolves
    /\ xdr_files' = [xdr_files EXCEPT ![self].enums =
                         ResolvedEnums(SymbolTable(xdr_files, self,
                                                   all_files_arg), @)]
    /\ before_resolve' = xdr_files
    /\ resolve_log' = Append(resolve_log,
                             [self |-> self, all_files |-> all_files_arg])
    /\ resolve_exc' = ""
    /\ UNCHANGED resolve_warnings
    /\ UNCHANGED <<scanVars, runVars, resolverVars, parserVars>>
    /\ UNCHANGED <<lexerVars, fetchVars, insertVars>>

\* the enum values of the texts: X = 5, W = 1, Y = X, Z = Y, Z = U, Y = K
EnumValuePool ==
    {XdrEnumValue("X", {5}, {}), XdrEnumValue("W", {1}, {}),
     XdrEnumValue("Y", {}, {"X"}), XdrEnumValue("Z", {}, {"Y"}),
     XdrEnumValue("Z", {}, {"U"}), XdrEnumValue("Y", {}, {"K"})}

\* const K = 7;  const X = 7;
ConstantPool == {<<>>, <<XdrConstant("K", 7)>>, <<XdrConstant("X", 7)>>}

\* the file that the parser returns for constants and one enum E of values
ParsedFile(constants, values) ==
    [EmptyXdrFile EXCEPT
         !.constants = constants,
         !.enums = IF values = <<>> THEN <<>> ELSE <<XdrEnum("E", values)>>]

\* the first file has up to MaxEnumValues enum values, the second file
\* at most the enum value X = 5
ResolveInputs ==
    {<<ParsedFile(c1, v1), ParsedFile(c2, v2)>> :
         c1 \in ConstantPool, v1 \in SeqsUpTo(EnumValuePool, MaxEnumValues),
         c2 \in ConstantPool,
         v2 \in {<<>>, <<XdrEnumValue("X", {5}, {})>>}}

\* None, [] and the list of both files
AllFilesInputs == {{}, {<<>>}, {<<1, 2>>}}

InitResolve ==
    /\ ScanIdle
    /\ RunIdle
    /\ ResolverIdle
    /\ ParserIdle
    /\ LexerIdle
    /\ FetchIdle
    /\ InsertIdle
    /\ xdr_files \in ResolveInputs
    /\ resolve_log = <<>>
    /\ before_resolve = <<>>
    /\ resolve_warnings = <<>>
    /\ resolve_exc = ""

NextResolve ==
    \E self \in 1..2, all_files_arg \in AllFilesInputs :
        ResolveReferences(self, all_files_arg)

SpecResolve == InitResolve /\ [][NextResolve]_vars

(***************************************************************************)
(* Properties of resolve_references                                        *)
(***************************************************************************)
\* the last call of resolve_references and the files it was given
LastResolve == resolve_log[Len(resolve_log)]

SuppliedFiles ==
    IF LastResolve.all_files = {} THEN {}
    ELSE LET list == CHOOSE l \in LastResolve.all_files : TRUE
         IN  {list[i] : i \in 1..Len(list)}

\* the enum values of a file
EnumValuePositions(file) ==
    {<<e, i>> \in (1..Len(file.enums)) \X (1..MaxEnumValues + 1) :
         i <= Len(file.enums[e].values)}

EnumValuesOf(file) ==
    {file.enums[p[1]].values[p[2]] : p \in EnumValuePositions(file)}

\* the integers of the literal constants and of the literal-valued enum
\* values called name in a file
LiteralIntegers(file, name) ==
    {file.constants[i].value :
         i \in {j \in 1..Len(file.constants) : file.constants[j].name = name}}
    \cup UNION {file.enums[p[1]].values[p[2]].value :
                    p \in {q \in EnumValuePositions(file) :
                             /\ file.enums[q[1]].values[q[2]].name = name
                             /\ file.enums[q[1]].values[q[2]].value_ref = {}}}

\* the integers that this file and the supplied files give to name
ProvidedIntegers(name) ==
    UNION {LiteralIntegers(before_resolve[f], name) :
               f \in {LastResolve.self} \cup SuppliedFiles}

\* every name that any file defines, as a constant or as an enum value
DefinedNames ==
    UNION {{before_resolve[f].constants[i].name :
                i \in 1..Len(before_resolve[f].constants)}
           \cup {before_resolve[f].enums[p[1]].values[p[2]].name :
                     p \in EnumValuePositions(before_resolve[f])} :
           f \in 1..Len(before_resolve)}

\* C21: after resolve_references, with or without all_files, every enum
\* value of the file whose value_ref names a literal constant or a
\* literal-valued enum value of this file or of a supplied file has the
\* integer of that symbol, and no literal-valued enum value is changed.
C21_ResolvedToSymbol ==
    resolve_log # <<>> =>
        \A p \in EnumValuePositions(before_resolve[LastResolve.self]) :
            LET was == before_resolve[LastResolve.self].enums[p[1]].values[p[2]]
                now == xdr_files[LastResolve.self].enums[p[1]].values[p[2]]
            IN  /\ was.value_ref = {} => now = was
                /\ \A ref \in was.value_ref :
                       ProvidedIntegers(ref) # {} =>
                           /\ now.value # {}
                           /\ now.value \subseteq ProvidedIntegers(ref)
                           /\ now.name = was.name
                           /\ now.value_ref = was.value_ref

\* a call with all_files on the first file, which has no constant of its
\* own, has given Y = K the integer of the constant K of the second file
C21_Witness ==
    /\ resolve_log # <<>>
    /\ LastResolve = [self |-> 1, all_files |-> {<<1, 2>>}]
    /\ before_resolve[1].constants = <<>>
    /\ XdrEnumValue("Y", {}, {"K"}) \in EnumValuesOf(before_resolve[1])
    /\ XdrEnumValue("Y", {7}, {"K"}) \in EnumValuesOf(xdr_files[1])
    /\ XdrEnumValue("X", {5}, {}) \in EnumValuesOf(xdr_files[1])

\* the enum values of the file whose reference names no symbol of any file
UndefinedReferences ==
    {p \in EnumValuePositions(before_resolve[LastResolve.self]) :
         LET was == before_resolve[LastResolve.self].enums[p[1]].values[p[2]]
         IN  /\ was.value_ref # {}
             /\ was.value_ref \cap DefinedNames = {}}

\* C22: resolving an enum value whose reference names a symbol absent from
\* every provided symbol table never raises, leaves that value unresolved
\* and produces exactly one warning that is surfaced to the caller.
C22_OneWarning ==
    (resolve_log # <<>> /\ Cardinality(UndefinedReferences) = 1) =>
        /\ resolve_exc = ""
        /\ \A p \in UndefinedReferences :
               xdr_files[LastResolve.self].enums[p[1]].values[p[2]].value = {}
        /\ Len(resolve_warnings) = 1

\* C29: resolve_references is idempotent: a second call with the same
\* arguments changes no enum value, also when a reference names an enum
\* value that is itself defined by a reference.
C29_Idempotent ==
    (/\ Len(resolve_log) >= 2
     /\ resolve_log[Len(resolve_log)] = resolve_log[Len(resolve_log) - 1])
    => xdr_files = before_resolve

(***************************************************************************)
(* XdrLexer, character by character                                        *)
(*                                                                         *)
(* lexer_source is the text as a sequence of characters, lexer_pos the    *)
(* 0-based self.pos; a cursor [pos, line, column, error] is the position  *)
(* that a helper method leaves, error being the message of the            *)
(* XdrLexerError that it raises ("" for none).  The character None is "". *)
(***************************************************************************)
MaxSourceLen == 4

Newline == "\n"

Whitespace == {" ", "\t", Newline, "\r"}

\* the characters of the texts for which str.isalpha holds
Letters ==
    {"a", "b", "c", "d", "e", "f", "g", "x", "A", "B", "C", "D", "E", "F", "X"}

Cursor(p, l, c) == [pos |-> p, line |-> l, column |-> c, error |-> ""]

\* XdrLexer._current_char
CurrentChar(src, lx) == IF lx.pos < Len(src) THEN src[lx.pos + 1] ELSE ""

\* XdrLexer._peek_char with offset 1
PeekChar(src, lx) == IF lx.pos + 1 < Len(src) THEN src[lx.pos + 2] ELSE ""

\* XdrLexer._advance
LexAdvance(src, lx) ==
    IF lx.pos >= Len(src) THEN lx
    ELSE IF src[lx.pos + 1] = Newline
         THEN [lx EXCEPT !.pos = @ + 1, !.line = @ + 1, !.column = 1]
         ELSE [lx EXCEPT !.pos = @ + 1, !.column = @ + 1]

\* "while self._current_char() and <test>: self._advance()" for the test
\* that the character is in S
RECURSIVE AdvanceWhile(_, _, _)
AdvanceWhile(src, lx, S) ==
    IF CurrentChar(src, lx) \in S
    THEN AdvanceWhile(src, LexAdvance(src, lx), S)
    ELSE lx

\* "while self._current_char() and self._current_char() != '\n'"
RECURSIVE AdvanceToNewline(_, _)
AdvanceToNewline(src, lx) ==
    IF CurrentChar(src, lx) \notin {"", Newline}
    THEN AdvanceToNewline(src, LexAdvance(src, lx))
    ELSE lx

\* "if self._current_char() == '\n': self._advance()"
AdvanceNewline(src, lx) ==
    IF CurrentChar(src, lx) = Newline THEN LexAdvance(src, lx) ELSE lx

\* XdrLexer._skip_line_comment, and the loop of _try_preprocessor; before
\* it a skip that consumes the first character only
SkipLineCommentMarker(src, lx) == LexAdvance(src, lx)
SkipLineComment(src, lx) == AdvanceNewline(src, AdvanceToNewline(src, lx))

\* the loop of _skip_block_comment and the raise after it
RECURSIVE BlockCommentLoop(_, _)
BlockCommentLoop(src, lx) ==
    IF lx.pos >= Len(src)
    THEN [lx EXCEPT !.error = "Unterminated block comment"]
    ELSE IF CurrentChar(src, lx) = "*" /\ PeekChar(src, lx) = "/"
         THEN LexAdvance(src, LexAdvance(src, lx))
         ELSE BlockCommentLoop(src, LexAdvance(src, lx))

\* XdrLexer._skip_block_comment
SkipBlockComment(src, lx) ==
    BlockCommentLoop(src, LexAdvance(src, LexAdvance(src, lx)))

\* XdrLexer._skip_whitespace_and_comments
RECURSIVE SkipWhitespaceAndComments(_, _)
SkipWhitespaceAndComments(src, lx) ==
    IF lx.error # "" \/ lx.pos >= Len(src) THEN lx
    ELSE IF CurrentChar(src, lx) \in Whitespace
         THEN SkipWhitespaceAndComments(src, LexAdvance(src, lx))
    ELSE IF CurrentChar(src, lx) = "/" /\ PeekChar(src, lx) = "/"
         THEN SkipWhitespaceAndComments(src, SkipLineComment(src, lx))
    ELSE IF CurrentChar(src, lx) = "/" /\ PeekChar(src, lx) = "*"
         THEN SkipWhitespaceAndComments(src, SkipBlockComment(src, lx))
    ELSE lx

\* Token(type, value, line, column); value is the sequence of characters
LexToken(type, value, l, c) ==
    [type |-> type, value |-> value, line |-> l, column |-> c]

\* the characters from the cursor from up to the cursor to
Lexeme(src, from, to) == SubSeq(src, from.pos + 1, to.pos)

\* the cursor of the lexer
Here == Cursor(lexer_pos, line, column)

\* the lexer goes on at the cursor lx with the tokens toks
LexGoto(lx, toks, next_pc) ==
    /\ lexer_pos' = lx.pos
    /\ line' = lx.line
    /\ column' = lx.column
    /\ lexer_tokens' = toks
    /\ lexer_pc' = next_pc
    /\ UNCHANGED <<lexer_source, lexer_error>>
    /\ UNCHANGED <<scanVars, runVars, resolverVars, parserVars>>
    /\ UNCHANGED <<resolveVars, fetchVars, insertVars>>

\* raise XdrLexerError(f"{self.filename}:{l}:{c}: {message}") with the
\* lexer left at the cursor lx
LexRaise(lx, message, l, c) ==
    /\ lexer_pos' = lx.pos
    /\ line' = lx.line
    /\ column' = lx.column
    /\ lexer_error' = <<[message |-> message, line |-> l, column |-> c]>>
    /\ lexer_pc' = "raised"
    /\ UNCHANGED <<lexer_source, lexer_tokens>>
    /\ UNCHANGED <<scanVars, runVars, resolverVars, parserVars>>
    /\ UNCHANGED <<resolveVars, fetchVars, insertVars>>

\* the end of a helper that skips: its raise, or the next test of tokenize
LexSkipped(lx, next_pc) ==
    IF lx.error # ""
    THEN LexRaise(lx, lx.error, lx.line, lx.column)
    ELSE LexGoto(lx, lexer_tokens, next_pc)

\* "if self.pos >= len(self.source): break", else the first test
AfterSkip(lx) == IF lx.pos >= Len(lexer_source) THEN "loop" ELSE "try_symbol"

\* "while self.pos < len(self.source): self._skip_whitespace_and_comments();
\* if self.pos >= len(self.source): break"
LexSkip ==
    /\ lexer_pc = "loop"
    /\ lexer_pos < Len(lexer_source)
    /\ LexSkipped(SkipWhitespaceAndComments(lexer_source, Here),
                  AfterSkip(SkipWhitespaceAndComments(lexer_source, Here)))

\* XdrLexer._try_symbol
LexTrySymbol ==
    /\ lexer_pc = "try_symbol"
    /\ lexer_pos < Len(lexer_source)
    /\ IF CurrentChar(lexer_source, Here) \in SYMBOLS
       THEN LexGoto(LexAdvance(lexer_source, Here),
                    Append(lexer_tokens,
                           LexToken("SYMBOL",
                                    <<CurrentChar(lexer_source, Here)>>,
                                    line, column)),
                    "loop")
       ELSE LexGoto(Here, lexer_tokens, "try_number")

\* "self.tokens.append(Token('NUMBER', value, token_line, token_col))"
LexNumberToken(start, lx) ==
    LexGoto(lx,
            Append(lexer_tokens,
                   LexToken("NUMBER", Lexeme(lexer_source, start, lx),
                            start.line, start.column)),
            "loop")

\* after "0x": the raise, or the hexadecimal digits
LexHexDigits(start, lx) ==
    IF CurrentChar(lexer_source, lx) \notin HexDigits
    THEN LexRaise(lx, "Invalid hexadecimal number", start.line, start.column)
    ELSE LexNumberToken(start, AdvanceWhile(lexer_source, lx, HexDigits))

\* "if self._current_char() == '0' and self._peek_char() in ('x', 'X')"
IsHexPrefix(src, lx) ==
    CurrentChar(src, lx) = "0" /\ PeekChar(src, lx) \in {"x", "X"}

\* the number after its sign
LexDigits(start, lx) ==
    IF IsHexPrefix(lexer_source, lx)
    THEN LexHexDigits(start,
                      LexAdvance(lexer_source, LexAdvance(lexer_source, lx)))
    ELSE LexNumberToken(start, AdvanceWhile(lexer_source, lx, DecimalDigits))

\* "self.pos -= 1; self.column -= 1", and a lexer that leaves the minus
\* consumed
RestoreNot(lx) == lx
Restore(lx) == [lx EXCEPT !.pos = @ - 1, !.column = @ - 1]

\* "if char == '-': value += self._advance(); if not self._current_char()
\* or not self._current_char().isdigit(): ... return False"
LexMinus(start, lx) ==
    IF CurrentChar(lexer_source, lx) \notin DecimalDigits
    THEN LexGoto(Restore(lx), lexer_tokens, "try_identifier")
    ELSE LexDigits(start, lx)

\* XdrLexer._try_number
LexTryNumber ==
    /\ lexer_pc = "try_number"
    /\ IF CurrentChar(lexer_source, Here) \notin DecimalDigits \cup {"-"}
       THEN LexGoto(Here, lexer_tokens, "try_identifier")
       ELSE IF CurrentChar(lexer_source, Here) = "-"
            THEN LexMinus(Here, LexAdvance(lexer_source, Here))
            ELSE LexDigits(Here, Here)

\* the string of a sequence of characters
RECURSIVE Join(_)
Join(chars) == IF chars = <<>> THEN "" ELSE Head(chars) \o Join(Tail(chars))

\* "if value in self.KEYWORDS: token_type = 'KEYWORD'"
LexWordToken(start, lx) ==
    LexGoto(lx,
            Append(lexer_tokens,
                   LexToken(IF Join(Lexeme(lexer_source, start, lx)) \in KEYWORDS
                            THEN "KEYWORD" ELSE "IDENTIFIER",
                            Lexeme(lexer_source, start, lx),
                            start.line, start.column)),
            "loop")

\* XdrLexer._try_identifier_or_keyword
LexTryIdentifier ==
    /\ lexer_pc = "try_identifier"
    /\ IF CurrentChar(lexer_source, Here) \notin Letters \cup {"_"}
       THEN LexGoto(Here, lexer_tokens, "try_preprocessor")
       ELSE LexWordToken(Here,
                         AdvanceWhile(lexer_source, Here,
                                      Letters \cup DecimalDigits \cup {"_"}))

\* XdrLexer._try_preprocessor
LexTryPreprocessor ==
    /\ lexer_pc = "try_preprocessor"
    /\ IF CurrentChar(lexer_source, Here) # "%"
       THEN LexGoto(Here, lexer_tokens, "invalid")
       ELSE LexGoto(SkipLineComment(lexer_source, Here), lexer_tokens, "loop")

\* "raise XdrLexerError(... Invalid character ...)"
LexInvalidCharacter ==
    /\ lexer_pc = "invalid"
    /\ LexRaise(Here, "Invalid character", line, column)

\* "self.tokens.append(Token('EOF', '', self.line, self.column)); return"
LexReturn ==
    /\ lexer_pc = "loop"
    /\ lexer_pos >= Len(lexer_source)
    /\ LexGoto(Here, Append(lexer_tokens, LexToken("EOF", <<>>, line, column)),
               "returned")

\* the characters of the texts: a letter, a digit, the minus, a symbol,
\* the slash, the newline, the percent sign and a character of no token
Alphabet == {"x", "0", "-", "*", "/", Newline, "%", "#"}

\* XdrLexer(source): every text of up to MaxSourceLen characters
InitLex ==
    /\ ScanIdle
    /\ RunIdle
    /\ ResolverIdle
    /\ ParserIdle
    /\ ResolveIdle
    /\ FetchIdle
    /\ InsertIdle
    /\ lexer_source \in SeqsUpTo(Alphabet, MaxSourceLen)
    /\ lexer_pos = 0
    /\ line = 1
    /\ column = 1
    /\ lexer_tokens = <<>>
    /\ lexer_pc = "loop"
    /\ lexer_error = <<>>

NextLex ==
    \/ LexSkip
    \/ LexTrySymbol
    \/ LexTryNumber
    \/ LexTryIdentifier
    \/ LexTryPreprocessor
    \/ LexInvalidCharacter
    \/ LexReturn

SpecLex == InitLex /\ [][NextLex]_vars

(***************************************************************************)
(* Properties of the lexer                                                 *)
(***************************************************************************)
\* the positions (from i on, 1-based) of the characters of line comments,
\* block comments and '%' lines; mode is "code", "line" or "block"
RECURSIVE CommentChars(_, _, _)
CommentChars(src, i, mode) ==
    IF i > Len(src) THEN {}
    ELSE IF mode = "line"
         THEN {i} \cup CommentChars(src, i + 1,
                                    IF src[i] = Newline THEN "code" ELSE "line")
    ELSE IF mode = "block"
         THEN IF src[i] = "*" /\ i < Len(src) /\ src[i + 1] = "/"
              THEN {i, i + 1} \cup CommentChars(src, i + 2, "code")
              ELSE {i} \cup CommentChars(src, i + 1, "block")
    ELSE IF src[i] = "/" /\ i < Len(src) /\ src[i + 1] = "/"
         THEN {i} \cup CommentChars(src, i + 1, "line")
    ELSE IF src[i] = "/" /\ i < Len(src) /\ src[i + 1] = "*"
         THEN {i, i + 1} \cup CommentChars(src, i + 2, "block")
    ELSE IF src[i] = "%"
         THEN {i} \cup CommentChars(src, i + 1, "line")
    ELSE CommentChars(src, i + 1, "code")

\* the text ends inside a block comment
RECURSIVE EndsInBlockComment(_, _, _)
EndsInBlockComment(src, i, mode) ==
    IF i > Len(src) THEN mode = "block"
    ELSE IF mode = "line"
         THEN EndsInBlockComment(src, i + 1,
                                 IF src[i] = Newline THEN "code" ELSE "line")
    ELSE IF mode = "block"
         THEN IF src[i] = "*" /\ i < Len(src) /\ src[i + 1] = "/"
              THEN EndsInBlockComment(src, i + 2, "code")
              ELSE EndsInBlockComment(src, i + 1, "block")
    ELSE IF src[i] = "/" /\ i < Len(src) /\ src[i + 1] = "*"
         THEN EndsInBlockComment(src, i + 2, "block")
    ELSE IF src[i] = "%" \/ (src[i] = "/" /\ i < Len(src) /\ src[i + 1] = "/")
         THEN EndsInBlockComment(src, i + 1, "line")
    ELSE EndsInBlockComment(src, i + 1, "code")

\* the position of the character at a line and a column, 0 for none
OffsetOf(src, l, c) ==
    LET at == {i \in 1..Len(src) :
                 /\ Cardinality({j \in 1..(i - 1) : src[j] = Newline}) = l - 1
                 /\ \A j \in (i - c + 1)..(i - 1) : j >= 1 /\ src[j] # Newline
                 /\ (i - c = 0 \/ (i - c >= 1 /\ src[i - c] = Newline))}
    IN  IF at = {} THEN 0 ELSE CHOOSE i \in at : TRUE

\* the characters outside comments that are no whitespace and start no
\* token: neither a symbol, a digit, a letter, an underscore nor a minus
\* before a digit
StartsNoToken(src) ==
    {i \in (1..Len(src)) \ CommentChars(src, 1, "code") :
         /\ src[i] \notin Whitespace \cup SYMBOLS \cup DecimalDigits
                              \cup Letters \cup {"_"}
         /\ ~(src[i] = "-" /\ i < Len(src) /\ src[i + 1] \in DecimalDigits)}

\* the positions that the token covers
TokenChars(src, token) ==
    {OffsetOf(src, token.line, token.column) + k : k \in 0..(Len(token.value) - 1)}

\* the returned list: every token but the last is a lexeme of the text
\* outside the comments and the '%' lines, and the only EOF is the last
TokensOutsideComments ==
    /\ lexer_tokens # <<>>
    /\ lexer_tokens[Len(lexer_tokens)].type = "EOF"
    /\ \A k \in 1..(Len(lexer_tokens) - 1) :
           /\ lexer_tokens[k].type # "EOF"
           /\ lexer_tokens[k].value # <<>>
           /\ OffsetOf(lexer_source, lexer_tokens[k].line,
                       lexer_tokens[k].column) # 0
           /\ TokenChars(lexer_source, lexer_tokens[k])
                  \cap CommentChars(lexer_source, 1, "code") = {}
           /\ lexer_tokens[k].value =
                  SubSeq(lexer_source,
                         OffsetOf(lexer_source, lexer_tokens[k].line,
                                  lexer_tokens[k].column),
                         OffsetOf(lexer_source, lexer_tokens[k].line,
                                  lexer_tokens[k].column)
                             + Len(lexer_tokens[k].value) - 1)

\* tokenize raises or returns under the causes of the list messages
LexerContract(messages) ==
    /\ lexer_pc = "raised" =>
           /\ Len(lexer_error) = 1
           /\ lexer_error[1].message \in messages
           /\ lexer_error[1].line >= 1 /\ lexer_error[1].column >= 1
           /\ lexer_error[1].message = "Invalid character" =>
                  OffsetOf(lexer_source, lexer_error[1].line,
                           lexer_error[1].column) \in StartsNoToken(lexer_source)
           /\ lexer_error[1].message = "Unterminated block comment" =>
                  EndsInBlockComment(lexer_source, 1, "code")
    /\ lexer_pc = "returned" =>
           /\ lexer_error = <<>>
           /\ StartsNoToken(lexer_source) = {}
           /\ ~EndsInBlockComment(lexer_source, 1, "code")
           /\ TokensOutsideComments

\* C23 as stated: tokenize raises XdrLexerError (with line and column) on
\* a character that cannot start a token and on a block comment without
\* closing '*/'; otherwise it returns a token list in which comments and
\* '%' lines contribute no token and exactly one EOF token is the last.
C23_RaisesOrReturns ==
    LexerContract({"Invalid character", "Unterminated block comment"})

\* C23, amended: tokenize raises XdrLexerError also on "0x" or "0X" that no
\* hexadecimal digit follows; otherwise as stated.
C23_RaisesOrReturnsHex ==
    /\ LexerContract({"Invalid character", "Unterminated block comment",
                      "Invalid hexadecimal number"})
    /\ (lexer_pc = "raised"
        /\ lexer_error[1].message = "Invalid hexadecimal number") =>
           \E i \in 1..(Len(lexer_source) - 1) :
               /\ lexer_source[i] = "0"
               /\ lexer_source[i + 1] \in {"x", "X"}
               /\ (i + 2 > Len(lexer_source)
                   \/ lexer_source[i + 2] \notin HexDigits)
               /\ OffsetOf(lexer_source, lexer_error[1].line,
                           lexer_error[1].column) \in {i, i - 1}

\* tokenize has returned the tokens of a text with a comment or a '%' line
C23_Witness ==
    /\ lexer_pc = "returned"
    /\ CommentChars(lexer_source, 1, "code") # {}
    /\ Len(lexer_tokens) = 2
    /\ lexer_tokens[1].type = "IDENTIFIER"

\* _try_number is called at a minus
AtMinus ==
    /\ lexer_pc = "try_number"
    /\ CurrentChar(lexer_source, Here) = "-"

\* the character after the current one is a digit
DigitFollows ==
    /\ lexer_pos + 1 < Len(lexer_source)
    /\ lexer_source[lexer_pos + 2] \in DecimalDigits

\* after the minus comes "0x" or "0X" and no hexadecimal digit
BareHexPrefixFollows ==
    /\ lexer_pos + 2 < Len(lexer_source)
    /\ lexer_source[lexer_pos + 2] = "0"
    /\ lexer_source[lexer_pos + 3] \in {"x", "X"}
    /\ (lexer_pos + 3 < Len(lexer_source) =>
            lexer_source[lexer_pos + 4] \notin HexDigits)

\* the step appends one NUMBER token that begins at the minus and holds
\* the minus and all the digits after it
MinusNumberToken ==
    /\ lexer_pc' = "loop"
    /\ lexer_pos' >= lexer_pos + 2
    /\ lexer_tokens' =
           Append(lexer_tokens,
                  LexToken("NUMBER",
                           SubSeq(lexer_source, lexer_pos + 1, lexer_pos'),
                           line, column))
    /\ (lexer_pos' < Len(lexer_source) =>
            lexer_source[lexer_pos' + 1] \notin DecimalDigits)
    /\ line' = line
    /\ column' = column + (lexer_pos' - lexer_pos)

\* _try_number returns False and the lexer is where it was
MinusNotConsumed ==
    /\ lexer_pc' = "try_identifier"
    /\ lexer_pos' = lexer_pos
    /\ line' = line
    /\ column' = column
    /\ lexer_tokens' = lexer_tokens

\* the step raises "Invalid hexadecimal number" at the minus
MinusHexRaise ==
    /\ lexer_pc' = "raised"
    /\ lexer_tokens' = lexer_tokens
    /\ lexer_error' = <<[message |-> "Invalid hexadecimal number",
                         line |-> line, column |-> column]>>

\* C24 as stated: a '-' immediately followed by a digit is consumed
\* together with the digits as one NUMBER token; a '-' not immediately
\* followed by a digit is not consumed: _try_number returns false with
\* position, line and column as before the minus and no token appended.
C24_MinusBeforeDigit ==
    [][AtMinus => IF DigitFollows THEN MinusNumberToken
                  ELSE MinusNotConsumed]_vars

\* C24, amended: a '-' immediately followed by a digit is consumed with the
\* digits as one NUMBER token, unless the digits are "0x" or "0X" without a
\* hexadecimal digit, where XdrLexerError is raised; a '-' not followed by
\* a digit leaves position, line, column and tokens as before the minus.
C24_MinusBeforeNumber ==
    [][AtMinus => IF DigitFollows
                  THEN IF BareHexPrefixFollows THEN MinusHexRaise
                       ELSE MinusNumberToken
                  ELSE MinusNotConsumed]_vars

\* _try_number has returned False at a minus that no digit follows, after
\* a token of the same line
C24_Witness ==
    /\ lexer_pc = "try_identifier"
    /\ CurrentChar(lexer_source, Here) = "-"
    /\ ~DigitFollows
    /\ lexer_tokens # <<>>
    /\ column > 1

(***************************************************************************)
(* The cycles of three or more files                                       *)
(***************************************************************************)
\* the graph has a cycle, no file depends on itself and no two files
\* depend on each other: every cycle runs through three or more files
OnlyLongCycles ==
    /\ HasDirectedCycle
    /\ \A a \in DOMAIN file_dependencies :
           \A b \in file_dependencies[a] : a \notin DependsOn(b)

C27_ConsumesEveryToken ==
    parse_pc = "returned" => AtEnd(tok_pos)

(***************************************************************************)
(* xdr_fetcher._make_request                                               *)
(*                                                                         *)
(* attempt is the loop variable, sleeps the delays passed to time.sleep,  *)
(* responses what urlopen and response.read did in each attempt.  An      *)
(* exception that no except clause of the loop names leaves the function. *)
(***************************************************************************)
max_retries == 3
base_delay == 1

\* the call ends: fetch_result is "body" or the name of the exception
FetchEnd(response, outcome) ==
    /\ fetch_pc' = IF outcome = "body" THEN "returned" ELSE "raised"
    /\ fetch_result' = outcome
    /\ responses' = Append(responses, response)
    /\ UNCHANGED <<attempt, sleeps>>
    /\ UNCHANGED <<scanVars, runVars, resolverVars, parserVars>>
    /\ UNCHANGED <<resolveVars, lexerVars, insertVars>>

\* "delay = base_delay * (2 ** attempt); time.sleep(delay); continue"
FetchRetry(response) ==
    /\ sleeps' = Append(sleeps, base_delay * (2 ^ attempt))
    /\ attempt' = attempt + 1
    /\ responses' = Append(responses, response)
    /\ UNCHANGED <<fetch_pc, fetch_result>>
    /\ UNCHANGED <<scanVars, runVars, resolverVars, parserVars>>
    /\ UNCHANGED <<resolveVars, lexerVars, insertVars>>

\* the body of "for attempt in range(max_retries + 1)" is entered
InRequestLoop ==
    /\ fetch_pc = "request"
    /\ attempt <= max_retries

\* "with urllib.request.urlopen(...) as response: return response.read()"
FetchReturn ==
    /\ InRequestLoop
    /\ FetchEnd([kind |-> "body", code |-> 200, rate_limit |-> FALSE], "body")

\* "except urllib.error.HTTPError as e"
FetchHTTPError(code, rate_limit) ==
    /\ InRequestLoop
    /\ IF code = 403 /\ rate_limit
       THEN FetchEnd([kind |-> "HTTPError", code |-> code,
                      rate_limit |-> rate_limit], "GitHubFetchError")
       ELSE IF code >= 500 /\ attempt < max_retries
            THEN FetchRetry([kind |-> "HTTPError", code |-> code,
                             rate_limit |-> rate_limit])
            ELSE FetchEnd([kind |-> "HTTPError", code |-> code,
                           rate_limit |-> rate_limit], "GitHubFetchError")

\* "except (urllib.error.URLError, TimeoutError, ConnectionError, OSError)"
FetchNetworkError(error) ==
    /\ InRequestLoop
    /\ IF attempt < max_retries
       THEN FetchRetry([kind |-> error, code |-> 0, rate_limit |-> FALSE])
       ELSE FetchEnd([kind |-> error, code |-> 0, rate_limit |-> FALSE],
                     "GitHubFetchError")

\* response.read() raises http.client.IncompleteRead when the connection
\* closes before Content-Length bytes came: an HTTPException, which is
\* neither an HTTPError nor an OSError, so that no except clause takes it
FetchIncompleteRead ==
    /\ InRequestLoop
    /\ FetchEnd([kind |-> "IncompleteRead", code |-> 200, rate_limit |-> FALSE],
                "IncompleteRead")

\* the status codes of the answers and the errors of the network
StatusCodes == {403, 404, 500, 503}

NetworkErrors == {"URLError", "TimeoutError"}

InitFetch ==
    /\ ScanIdle
    /\ RunIdle
    /\ ResolverIdle
    /\ ParserIdle
    /\ ResolveIdle
    /\ LexerIdle
    /\ InsertIdle
    /\ attempt = 0
    /\ sleeps = <<>>
    /\ responses = <<>>
    /\ fetch_pc = "request"
    /\ fetch_result = ""

NextFetch ==
    \/ FetchReturn
    \/ \E code \in StatusCodes, rate_limit \in BOOLEAN :
           FetchHTTPError(code, rate_limit)
    \/ \E error \in NetworkErrors : FetchNetworkError(error)
    \/ FetchIncompleteRead

SpecFetch == InitFetch /\ [][NextFetch]_vars

\* the answers after which _make_request may try again
Transient(response) ==
    \/ response.kind \in NetworkErrors
    \/ response.kind = "HTTPError" /\ response.code >= 500

\* C26: every call of _make_request ends after at most 4 attempts with a
\* response body or GitHubFetchError; a further attempt is made only after
\* a 5xx answer or a network error, after sleeps of 1s, 2s and 4s in that
\* order, and a 4xx answer ends the call after that single attempt.
C26_BodyOrGitHubFetchError ==
    /\ attempt <= max_retries
    /\ Len(responses) <= max_retries + 1
    /\ sleeps = SubSeq(<<1, 2, 4>>, 1, attempt)
    /\ \A i \in 1..attempt : Transient(responses[i])
    /\ \A i \in 1..Len(responses) :
           (responses[i].kind = "HTTPError" /\ responses[i].code < 500) =>
               /\ i = Len(responses)
               /\ fetch_result = "GitHubFetchError"
    /\ fetch_pc # "request" =>
           /\ fetch_result \in {"body", "GitHubFetchError"}
           /\ Len(responses) = attempt + 1

(***************************************************************************)
(* Character level: the brace scanners of DartMerger                       *)
(***************************************************************************)
\* the loop of _find_class_end and of _find_method_end, which is the same
\* text in both: strings are tracked, comments are not
RECURSIVE MergerBraceScan(_, _, _, _, _)
MergerBraceStep(c, p, d, sa) ==
    IF d + BraceDelta(CharAt(c, p), sa[1]) = 0 THEN p
    ELSE MergerBraceScan(c, p + 1, d + BraceDelta(CharAt(c, p), sa[1]),
                         sa[1], sa[2])

MergerBraceScan(c, p, d, instr, schar) ==
    IF ~(p < Len(c) /\ d > 0) THEN -1
    ELSE MergerBraceStep(c, p, d,
                         StringAfter(CharAt(c, p), CharAt(c, p - 1),
                                     instr, schar))

\* DartMerger._find_class_end(content, start_pos)
FindClassEndAt(c, start_pos) ==
    IF start_pos >= Len(c) \/ CharAt(c, start_pos) # "{" THEN -1
    ELSE MergerBraceScan(c, start_pos + 1, 1, FALSE, "")

\* DartMerger._find_method_end(content, start_pos)
FindMethodEndAt(c, start_pos) ==
    IF start_pos >= Len(c) \/ CharAt(c, start_pos) # "{" THEN -1
    ELSE MergerBraceScan(c, start_pos + 1, 1, FALSE, "")

\* C28: on every text and opening brace, also with braces inside line or
\* block comments, DartMerger._find_class_end and _find_method_end return
\* the closing brace that DartAnalyzer._find_matching_brace returns.
C28_SameClosingBrace ==
    scan_pc = "returned" =>
        /\ FindClassEndAt(content, 0) = scan_result
        /\ FindMethodEndAt(content, 0) = scan_result

(***************************************************************************)
(* DartMerger.insert_custom_section on its own                             *)
(***************************************************************************)
MaxMethods == 2

XdrE == <<"Xdr", "E">>
XdrF == <<"Xdr", "F">>
XdrG == <<"Xdr", "G">>

\* int helper(int x) { .. }   int other() { .. }   XdrF f;
GeneratedMembers ==
    {<<"meth", "helper", "block", "generated">>,
     <<"meth", "other", "block", "generated">>,
     <<"field", XdrF>>}

\* int twice() { .. }   int other() { .. }   return helper(2);
CustomLines ==
    {<<"meth", "twice", "block", "custom">>,
     <<"meth", "other", "block", "custom">>,
     <<"call", "helper">>}

\* class XdrF { int helper(int x) { .. } }
ClassF == <<<<"class", XdrF>>, <<"meth", "helper", "block", "generated">>,
            <<"close">>>>

\* the generated texts: class XdrE with up to MaxMethods members, alone or
\* before class XdrF
GeneratedTexts ==
    {<<<<"class", XdrE>>>> \o members \o <<<<"close">>>> \o more :
         members \in SeqsUpTo(GeneratedMembers, MaxMethods),
         more \in {<<>>, ClassF}}

\* CustomSection(content, class_name)
CustomSections ==
    {[class_name |-> name, content |-> lines] :
         name \in {XdrE, XdrG}, lines \in SeqsUpTo(CustomLines, MaxMethods)}

\* merger.insert_custom_section(class_content, section)
InsertCustomSectionCall ==
    /\ insert_pc = "call"
    /\ insert_result' = InsertCustomSection(insert_content,
                                            insert_section.class_name,
                                            insert_section.content)
    /\ insert_pc' = "done"
    /\ UNCHANGED <<insert_content, insert_section>>
    /\ UNCHANGED <<scanVars, runVars, resolverVars, parserVars>>
    /\ UNCHANGED <<resolveVars, lexerVars, fetchVars>>

InitInsert ==
    /\ ScanIdle
    /\ RunIdle
    /\ ResolverIdle
    /\ ParserIdle
    /\ ResolveIdle
    /\ LexerIdle
    /\ FetchIdle
    /\ insert_content \in GeneratedTexts
    /\ insert_section \in CustomSections
    /\ insert_pc = "call"
    /\ insert_result = <<>>

NextInsert == InsertCustomSectionCall

SpecInsert == InitInsert /\ [][NextInsert]_vars

\* the names that the custom section declares as methods
DeclaredMethods(lines) ==
    {lines[i][2] : i \in {j \in 1..Len(lines) : Kind(lines[j]) = "meth"}}

\* the lines of the target class that are methods the section declares
DeletableLines ==
    {i \in (ClassIndex(insert_content, insert_section.class_name) + 1)
           ..(FindMatchingBrace(insert_content,
                                ClassIndex(insert_content,
                                           insert_section.class_name)) - 1) :
         /\ Kind(insert_content[i]) = "meth"
         /\ insert_content[i][2] \in DeclaredMethods(insert_section.content)}

\* the text without the lines of D
RECURSIVE WithoutLines(_, _, _)
WithoutLines(text, D, i) ==
    IF i > Len(text) THEN <<>>
    ELSE (IF i \in D THEN <<>> ELSE <<text[i]>>)
         \o WithoutLines(text, D, i + 1)

\* the text with the section before the closing brace of the class
WithSection(text, name, lines, closing) ==
    SubSeq(text, 1, closing - 1)
    \o <<<<"start">>>> \o lines \o <<<<"end">>>>
    \o SubSeq(text, closing, Len(text))

\* C30: insert_custom_section changes the generated text only by deleting
\* methods of the target class that the custom section declares and by
\* inserting the section before the closing brace of that class; every
\* other class and every method that the section does not declare, even
\* one that the custom code calls, stays.
C30_OnlyDeclaredMethodsDeleted ==
    (insert_pc = "done" /\ ~insert_result.raised) =>
        \E D \in SUBSET DeletableLines :
            insert_result.text =
                WithSection(WithoutLines(insert_content, D, 1),
                            insert_section.class_name,
                            insert_section.content,
                            FindMatchingBrace(
                                WithoutLines(insert_content, D, 1),
                                ClassIndex(WithoutLines(insert_content, D, 1),
                                           insert_section.class_name)))

====
